---- MODULE Spec2Model ----
(***************************************************************************)
(* Verification model of the metrics-engine computation core: series       *)
(* alignment, the business-day calendar, the delta / backing / aggregate   *)
(* calculators and the run protocol of DualDatabaseMetricsEngine.          *)
(*                                                                         *)
(* Dates are day numbers counted from 2024-01-01 (day 0, a Monday).        *)
(* JavaScript numbers are modelled as extended rationals [n, d]:           *)
(*   d > 0          the finite value n/d (in lowest terms)                 *)
(*   d = 0, n = 0   NaN                                                    *)
(*   d = 0, n = 1   +Infinity        d = 0, n = -1   -Infinity             *)
(***************************************************************************)
EXTENDS Integers, Sequences, FiniteSets, TLC

VARIABLES
    pc,            \* position of the running operation
    seriesArray,   \* argument of SeriesUtils.alignMultipleSeries
    alignedOut,    \* its return value
    runInputs,     \* inputs record of the running use case / engine run
    mainAligned,   \* return value of ReservesBackingUseCase.alignMainSeries
    results,       \* results array of the running use case / engine run
    source,        \* content of the series store (source database)
    pendingReads,  \* getSeriesPoints calls issued and not yet completed
    loaded,        \* rows returned by the completed getSeriesPoints calls
    calcDone,      \* calculators of the engine that have returned, in order
    upsertCalls,   \* batches passed to upsertMetricsPoints, in call order
    store,         \* rows of the metrics_points table
    thrown,        \* error thrown inside computeMetricsForRange, or "none"
    outcome,       \* how execute() settled: "none", "ok" or "error"
    history        \* record of the operations that completed earlier

vars == <<pc, seriesArray, alignedOut, runInputs, mainAligned, results, source,
          pendingReads, loaded, calcDone, upsertCalls, store, thrown, outcome,
          history>>

---------------------------------------------------------------------------
(* Bounds of the model *)

NumDates == 2
MaxSeries == 3
MaxRuns == 2
MaxCalls == 2
MaxPrices == 33
MaxPressureDates == 32

\* largest number of business days passed to subtractBusinessDays in a call
MaxSubtract == 4

ModelDates == 1..NumDates

---------------------------------------------------------------------------
(* JavaScript number arithmetic on extended rationals *)

Abs(x) == IF x < 0 THEN -x ELSE x

Sign(x) == IF x > 0 THEN 1 ELSE IF x < 0 THEN -1 ELSE 0

RECURSIVE GCD(_, _)
GCD(a, b) == IF b = 0 THEN a ELSE GCD(b, a % b)

NaN == [n |-> 0, d |-> 0]
PosInf == [n |-> 1, d |-> 0]
NegInf == [n |-> -1, d |-> 0]

Norm(n, d) ==
    IF d = 0 THEN [n |-> Sign(n), d |-> 0]
    ELSE LET g == GCD(Abs(n), Abs(d))
             s == Sign(d)
         IN [n |-> (s * n) \div g, d |-> (s * d) \div g]

Num(i) == [n |-> i, d |-> 1]

isNaN(x) == x.d = 0 /\ x.n = 0

isFinite(x) == x.d > 0

NumDiv(a, b) ==
    IF isNaN(a) \/ isNaN(b) THEN NaN
    ELSE IF a.d = 0 /\ b.d = 0 THEN NaN
    ELSE IF a.d = 0 THEN [n |-> a.n * (IF b.n < 0 THEN -1 ELSE 1), d |-> 0]
    ELSE IF b.d = 0 THEN Num(0)
    ELSE Norm(a.n * b.d, a.d * b.n)

NumMul(a, b) ==
    IF isNaN(a) \/ isNaN(b) THEN NaN
    ELSE IF a.d = 0 \/ b.d = 0
         THEN [n |-> Sign(a.n) * Sign(b.n), d |-> 0]
    ELSE Norm(a.n * b.n, a.d * b.d)

NumAdd(a, b) ==
    IF isNaN(a) \/ isNaN(b) THEN NaN
    ELSE IF a.d = 0 /\ b.d = 0 THEN (IF a.n = b.n THEN a ELSE NaN)
    ELSE IF a.d = 0 THEN a
    ELSE IF b.d = 0 THEN b
    ELSE IF a.d = b.d THEN Norm(a.n + b.n, a.d)
    ELSE Norm(a.n * b.d + b.n * a.d, a.d * b.d)

NumNeg(a) == [n |-> -a.n, d |-> a.d]

NumSub(a, b) == NumAdd(a, NumNeg(b))

\* a > b as JavaScript evaluates it (false whenever NaN is involved)
NumGt(a, b) ==
    IF isNaN(a) \/ isNaN(b) THEN FALSE
    ELSE IF a.d = 0 /\ b.d = 0 THEN a.n > b.n
    ELSE IF a.d = 0 THEN a.n > 0
    ELSE IF b.d = 0 THEN b.n < 0
    ELSE a.n * b.d > b.n * a.d

---------------------------------------------------------------------------
(* SeriesUtils: a series is a sequence of points [ts, value] *)

Point(ts, value) == [ts |-> ts, value |-> value]

SeqRange(s) == {s[i] : i \in 1..Len(s)}

DatesOf(points) == {points[i].ts : i \in 1..Len(points)}

\* map.set(p.ts, p.value): a new key goes last, a known key keeps its place
mapSet(map, p) ==
    [keys |-> IF p.ts \in DOMAIN map.val THEN map.keys ELSE Append(map.keys, p.ts),
     val |-> (p.ts :> p.value) @@ map.val]

\* points[first..last] set into the map one after the other, from first to
\* last; the run of calls is evaluated in two halves, the first before the
\* second
RECURSIVE toMapFrom(_, _, _, _)
toMapFrom(points, first, last, map) ==
    IF first > last THEN map
    ELSE IF first = last THEN mapSet(map, points[first])
    ELSE LET mid == (first + last) \div 2
             half == toMapFrom(points, first, mid, map)
         IN IF Len(half.keys) > 0 THEN toMapFrom(points, mid + 1, last, half) ELSE half

\* Map<date, value>: keys in insertion order, a later duplicate overwrites
toMap(points) == toMapFrom(points, 1, Len(points), [keys |-> <<>>, val |-> <<>>])

\* the sorted array with p put after the elements that are not later than p
insertByDate(sorted, p) ==
    LET before == Cardinality({j \in 1..Len(sorted) : sorted[j].ts <= p.ts})
    IN SubSeq(sorted, 1, before) \o <<p>> \o SubSeq(sorted, before + 1, Len(sorted))

\* points[first..last] inserted into acc one after the other, from first to
\* last; the run of insertions is evaluated in two halves, and the test on
\* `half` makes the first half's array be computed before the second
RECURSIVE sortFrom(_, _, _, _)
sortFrom(points, first, last, acc) ==
    IF first > last THEN acc
    ELSE IF first = last THEN insertByDate(acc, points[first])
    ELSE LET mid == (first + last) \div 2
             half == sortFrom(points, first, mid, acc)
         IN IF Len(half) > 0 THEN sortFrom(points, mid + 1, last, half) ELSE half

\* a copy of the array, stably sorted ascending by date
sortByDate(points) == sortFrom(points, 1, Len(points), <<>>)

\* faulty variant: the first series is returned whole, not cut to the common dates
alignSeries_firstWhole(series1, series2) ==
    LET map1 == toMap(series1)
        map2 == toMap(series2)
        commonDates == SelectSeq(map1.keys, LAMBDA date : date \in DOMAIN map2.val)
        aligned1 == [i \in 1..Len(map1.keys) |->
                        Point(map1.keys[i], map1.val[map1.keys[i]])]
        aligned2 == [i \in 1..Len(commonDates) |->
                        Point(commonDates[i], map2.val[commonDates[i]])]
    IN [series1 |-> sortByDate(aligned1), series2 |-> sortByDate(aligned2)]

alignSeries(series1, series2) ==
    LET map1 == toMap(series1)
        map2 == toMap(series2)
        commonDates == SelectSeq(map1.keys, LAMBDA date : date \in DOMAIN map2.val)
        aligned1 == [i \in 1..Len(commonDates) |->
                        Point(commonDates[i], map1.val[commonDates[i]])]
        aligned2 == [i \in 1..Len(commonDates) |->
                        Point(commonDates[i], map2.val[commonDates[i]])]
    IN [series1 |-> sortByDate(aligned1), series2 |-> sortByDate(aligned2)]

\* the test on `aligned` makes each step's array be computed before the next
RECURSIVE alignFold(_, _, _)
alignFold(seriesArr, i, result) ==
    IF i > Len(seriesArr) THEN result
    ELSE LET aligned == alignSeries(result, seriesArr[i]).series1
         IN IF Len(aligned) >= 0 THEN alignFold(seriesArr, i + 1, aligned)
            ELSE aligned

\* faulty variant: every series is aligned against the first series only
alignMultipleSeries_firstOnly(seriesArr) ==
    IF Len(seriesArr) = 0 THEN <<>>
    ELSE IF Len(seriesArr) = 1 THEN seriesArr
    ELSE [k \in 1..Len(seriesArr) |->
              alignSeries(seriesArr[1], seriesArr[k]).series2]

alignMultipleSeries(seriesArr) ==
    IF Len(seriesArr) = 0 THEN <<>>
    ELSE IF Len(seriesArr) = 1 THEN seriesArr
    ELSE LET result == alignFold(seriesArr, 2, seriesArr[1])
         IN [k \in 1..Len(seriesArr) |-> alignSeries(result, seriesArr[k]).series2]

---------------------------------------------------------------------------
(* Input series of the model: unique dates, as the series store keeps them *)

SetMin(S) == CHOOSE x \in S : \A y \in S : x <= y

\* the points (d, f[d]) for d in S, date-ascending: the dates below the
\* middle date of S, the middle date, the dates above it
RECURSIVE AscendingFrom(_, _)
AscendingFrom(f, S) ==
    IF S = {} THEN <<>>
    ELSE LET m == CHOOSE x \in S :
                      Cardinality({y \in S : y < x}) = Cardinality(S) \div 2
         IN AscendingFrom(f, {y \in S : y < m})
            \o <<Point(m, f[m])>>
            \o AscendingFrom(f, {y \in S : y > m})

\* every series over a subset of `dates` with values in `values`, date-ascending
SeriesOver(dates, values) ==
    UNION {{AscendingFrom(f, S) : f \in [S -> values]} : S \in SUBSET dates}

Reversed(s) == [i \in 1..Len(s) |-> s[Len(s) + 1 - i]]

AlignValues == {1, 2}

AlignSeriesInputs == SeriesOver(ModelDates, AlignValues)

AlignArrays ==
    UNION {[1..n -> AlignSeriesInputs] : n \in 2..MaxSeries}

Idle ==
    /\ alignedOut = <<>>
    /\ mainAligned = <<>>
    /\ results = <<>>
    /\ pendingReads = {}
    /\ loaded = <<>>
    /\ calcDone = <<>>
    /\ upsertCalls = <<>>
    /\ store = {}
    /\ thrown = "none"
    /\ outcome = "none"
    /\ history = <<>>

---------------------------------------------------------------------------
(* SpecAlign: SeriesUtils.alignMultipleSeries applied to a list of series *)

InitAlign ==
    /\ pc = "ready"
    /\ \E arr \in AlignArrays :
          \/ seriesArray = arr
          \/ seriesArray = [k \in DOMAIN arr |-> Reversed(arr[k])]
    /\ runInputs = <<>>
    /\ source = <<>>
    /\ Idle

AlignMultiple ==
    /\ pc = "ready"
    /\ alignedOut' = alignMultipleSeries(seriesArray)
    /\ pc' = "aligned"
    /\ UNCHANGED <<seriesArray, runInputs, mainAligned, results, source,
                   pendingReads, loaded, calcDone, upsertCalls, store, thrown, outcome,
                   history>>

\* SeriesUtils.alignSeries applied to the first two series
AlignPair ==
    /\ pc = "ready"
    /\ alignedOut' = <<alignSeries(seriesArray[1], seriesArray[2]).series1,
                       alignSeries(seriesArray[1], seriesArray[2]).series2>>
    /\ pc' = "aligned_pair"
    /\ UNCHANGED <<seriesArray, runInputs, mainAligned, results, source,
                   pendingReads, loaded, calcDone, upsertCalls, store, thrown, outcome,
                   history>>

\* SeriesUtils.alignMultipleSeries applied to the list of the first series alone
AlignSingle ==
    /\ pc = "ready"
    /\ alignedOut' = alignMultipleSeries(<<seriesArray[1]>>)
    /\ pc' = "aligned_single"
    /\ UNCHANGED <<seriesArray, runInputs, mainAligned, results, source,
                   pendingReads, loaded, calcDone, upsertCalls, store, thrown, outcome,
                   history>>

NextAlign ==
    \/ AlignMultiple
    \/ AlignPair
    \/ AlignSingle

SpecAlign == InitAlign /\ [][NextAlign]_vars

---------------------------------------------------------------------------
(* Metric points and the metrics store.  A metric id is modelled as the    *)
(* sequence of the segments that its string splits into at "_".            *)

\* an optional series field of an inputs record
None == [some |-> FALSE, v |-> <<>>]
Some(points) == [some |-> TRUE, v |-> points]

MetricPoint(metricId, ts, value, metadata) ==
    [metricId |-> metricId, ts |-> ts, value |-> value, metadata |-> metadata]

KeyOf(p) == <<p.metricId, p.ts>>

KeysOf(batch) == {KeyOf(batch[i]) : i \in 1..Len(batch)}

\* INSERT ... ON CONFLICT DO UPDATE rejects a statement that proposes the
\* same (metric_id, ts) twice
HasDuplicateKeys(batch) ==
    \E i, j \in 1..Len(batch) : i # j /\ KeyOf(batch[i]) = KeyOf(batch[j])

LastWithKey(batch, k) ==
    batch[CHOOSE i \in 1..Len(batch) :
            /\ KeyOf(batch[i]) = k
            /\ \A j \in 1..Len(batch) : KeyOf(batch[j]) = k => j <= i]

\* the row INSERT proposes for a point
RowOf(p) ==
    [metric_id |-> p.metricId, ts |-> p.ts, value |-> p.value,
     metadata |-> p.metadata]

RowKey(r) == <<r.metric_id, r.ts>>

\* a conflict clause that adds the proposed value to the stored one
upsertRows_accumulate(st, batch) ==
    {r \in st : RowKey(r) \notin KeysOf(batch)}
    \cup {[RowOf(LastWithKey(batch, k)) EXCEPT
              !.value = IF \E r \in st : RowKey(r) = k
                        THEN NumAdd((CHOOSE r \in st : RowKey(r) = k).value, @)
                        ELSE @] : k \in KeysOf(batch)}

\* INSERT ... ON CONFLICT (metric_id, ts) DO UPDATE SET value, metadata:
\* rows of other keys stay, a row of a proposed key is replaced
upsertRows(st, batch) ==
    {r \in st : RowKey(r) \notin KeysOf(batch)}
    \cup {RowOf(LastWithKey(batch, k)) : k \in KeysOf(batch)}

\* whether upsertMetricsPoints throws; dbOk is whether the database is
\* reachable and executes the statement
upsertThrows(batch, dbOk) ==
    Len(batch) > 0 /\ (~dbOk \/ HasDuplicateKeys(batch))

\* an INSERT without the conflict clause on a table without the primary key
upsertMetricsPoints_insertOnly(batch, dbOk) ==
    IF Len(batch) = 0
    THEN UNCHANGED <<upsertCalls, store>>
    ELSE /\ upsertCalls' = Append(upsertCalls, batch)
         /\ store' = IF ~dbOk THEN store
                     ELSE store \cup {RowOf(batch[i]) : i \in 1..Len(batch)}

\* TargetMetricsRepositoryImpl.upsertMetricsPoints
upsertMetricsPoints(batch, dbOk) ==
    IF Len(batch) = 0
    THEN UNCHANGED <<upsertCalls, store>>
    ELSE /\ upsertCalls' = Append(upsertCalls, batch)
         /\ store' = IF upsertThrows(batch, dbOk) THEN store
                     ELSE upsertRows(store, batch)

\* tail of a use case's execute(): persistResults is called only when
\* results is non-empty, and its error rejects execute()
persistResults(res, dbOk) ==
    IF Len(res) > 0
    THEN /\ upsertMetricsPoints(res, dbOk)
         /\ outcome' = IF upsertThrows(res, dbOk) THEN "error" ELSE "ok"
    ELSE /\ UNCHANGED <<upsertCalls, store>>
         /\ outcome' = "ok"

---------------------------------------------------------------------------
(* SpecUpsert: a sequence of upsertMetricsPoints calls on one store *)

UpsertMetricIds == {<<"metric", "a">>, <<"metric", "b">>}

\* value and metadata of the points a caller proposes
UpsertPayloads == {[value |-> Num(1), metadata |-> [units |-> "ratio"]],
                   [value |-> Num(2), metadata |-> [units |-> "USD"]]}

UpsertPoints ==
    {MetricPoint(m, 1, pl.value, pl.metadata) :
        m \in UpsertMetricIds, pl \in UpsertPayloads}

UpsertBatches ==
    {<<>>} \cup {<<p>> : p \in UpsertPoints}
           \cup {<<p, q>> : p \in UpsertPoints, q \in UpsertPoints}

InitUpsert ==
    /\ pc = "store_ready"
    /\ seriesArray = <<>>
    /\ runInputs = <<>>
    /\ source = <<>>
    /\ Idle

\* one call of upsertMetricsPoints(points); history keeps the argument of
\* every call and whether the call resolved
UpsertCall ==
    /\ pc = "store_ready"
    /\ Len(history) < MaxCalls
    /\ \E batch \in UpsertBatches, dbOk \in BOOLEAN :
          /\ upsertMetricsPoints(batch, dbOk)
          /\ history' = Append(history,
                               [batch |-> batch,
                                resolved |-> ~upsertThrows(batch, dbOk)])
    /\ UNCHANGED <<pc, seriesArray, alignedOut, runInputs, mainAligned, results,
                   source, pendingReads, loaded, calcDone, thrown, outcome>>

NextUpsert == UpsertCall

SpecUpsert == InitUpsert /\ [][NextUpsert]_vars

---------------------------------------------------------------------------
(* ReservesBackingUseCase *)

alignMainSeries(inputs) ==
    LET alignedMain == alignSeries(alignSeries(inputs.reserves, inputs.base).series1,
                                   inputs.usdOfficial)
    IN [reserves |-> alignedMain.series1,
        base |-> alignSeries(inputs.base, inputs.usdOfficial).series2,
        usdOfficial |-> alignedMain.series2]

extractMainSeriesData(alignedData, index) ==
    [reserves |-> alignedData.reserves[index].value,
     base |-> alignedData.base[index].value,
     usdOfficial |-> alignedData.usdOfficial[index].value,
     ts |-> alignedData.reserves[index].ts]

canCalculateReservesToBase(dailyData) == dailyData.usdOfficial > 0

computeReservesToBaseRatio(dailyData) ==
    LET baseInUsd == NumDiv(Num(dailyData.base), Num(dailyData.usdOfficial))
    IN NumDiv(Num(dailyData.reserves), baseInUsd)

createReservesToBaseResult(dailyData, ratio) ==
    MetricPoint(<<"ratio.reserves", "to", "base">>, dailyData.ts, ratio,
                [reserves_usd |-> dailyData.reserves,
                 base_ars |-> dailyData.base,
                 usd_official |-> dailyData.usdOfficial,
                 base_in_usd |-> NumDiv(Num(dailyData.base), Num(dailyData.usdOfficial)),
                 units |-> "ratio"])

RECURSIVE reservesToBaseFrom(_, _, _)
reservesToBaseFrom(alignedData, i, acc) ==
    IF i > Len(alignedData.reserves) THEN acc
    ELSE LET dailyData == extractMainSeriesData(alignedData, i)
         IN reservesToBaseFrom(alignedData, i + 1,
                IF canCalculateReservesToBase(dailyData)
                THEN Append(acc, createReservesToBaseResult(dailyData,
                                     computeReservesToBaseRatio(dailyData)))
                ELSE acc)

calculateReservesToBaseRatio(inputs) ==
    reservesToBaseFrom(alignMainSeries(inputs), 1, <<>>)

hasPasivosData(inputs) ==
    inputs.leliq.some /\ inputs.pasesActivos.some /\ inputs.pasesPasivos.some

alignPasivosSeries(inputs) ==
    LET main == alignMainSeries(inputs)
        alignedPasivos == alignMultipleSeries(<<main.reserves, main.usdOfficial,
                              inputs.leliq.v, inputs.pasesActivos.v,
                              inputs.pasesPasivos.v>>)
    IN [reserves |-> alignedPasivos[1],
        usdOfficial |-> alignedPasivos[2],
        leliq |-> alignedPasivos[3],
        pasesActivos |-> alignedPasivos[4],
        pasesPasivos |-> alignedPasivos[5]]

extractPasivosData(alignedData, index) ==
    [reserves |-> alignedData.reserves[index].value,
     usdOfficial |-> alignedData.usdOfficial[index].value,
     leliq |-> alignedData.leliq[index].value,
     pasesActivos |-> alignedData.pasesActivos[index].value,
     pasesPasivos |-> alignedData.pasesPasivos[index].value,
     ts |-> alignedData.reserves[index].ts]

canCalculatePassivesVsReserves(dailyData) == dailyData.usdOfficial > 0

computePassivesVsReservesRatio(dailyData) ==
    LET totalPasivos == dailyData.leliq + dailyData.pasesActivos + dailyData.pasesPasivos
        reservesInArs == dailyData.reserves * dailyData.usdOfficial
    IN NumDiv(Num(totalPasivos), Num(reservesInArs))

createPassivesVsReservesResult(dailyData, ratio) ==
    MetricPoint(<<"ratio.passives", "vs", "reserves">>, dailyData.ts, ratio,
                [reserves_usd |-> dailyData.reserves,
                 reserves_ars |-> dailyData.reserves * dailyData.usdOfficial,
                 total_pasivos |-> dailyData.leliq + dailyData.pasesActivos
                                     + dailyData.pasesPasivos,
                 units |-> "ratio"])

RECURSIVE passivesFrom(_, _, _)
passivesFrom(alignedData, i, acc) ==
    IF i > Len(alignedData.reserves) THEN acc
    ELSE LET dailyData == extractPasivosData(alignedData, i)
         IN passivesFrom(alignedData, i + 1,
                IF canCalculatePassivesVsReserves(dailyData)
                THEN Append(acc, createPassivesVsReservesResult(dailyData,
                                     computePassivesVsReservesRatio(dailyData)))
                ELSE acc)

calculatePassivesVsReservesRatio(inputs) ==
    passivesFrom(alignPasivosSeries(inputs), 1, <<>>)

---------------------------------------------------------------------------
(* SpecBacking: ReservesBackingUseCase.execute on one inputs record *)

ReservesValues == {0, 45000}
BaseValues == {53000}
UsdValues == {0, 1200}

\* a series with a point on every date of `dates`, its values increasing
FullSeries(dates, first) == AscendingFrom([d \in dates |-> first + d], dates)

PasivosOptions ==
    { [leliq |-> None, pasesActivos |-> None, pasesPasivos |-> None],
      [leliq |-> None, pasesActivos |-> Some(FullSeries(ModelDates, 20)),
       pasesPasivos |-> Some(FullSeries(ModelDates, 30))],
      [leliq |-> Some(FullSeries(ModelDates, 10)),
       pasesActivos |-> Some(FullSeries({1}, 20)),
       pasesPasivos |-> Some(FullSeries(ModelDates, 30))],
      [leliq |-> Some(FullSeries(ModelDates, 10)),
       pasesActivos |-> Some(FullSeries(ModelDates, 20)),
       pasesPasivos |-> Some(FullSeries(ModelDates, 30))] }

BackingInputs ==
    { [reserves |-> r, base |-> b, usdOfficial |-> u, leliq |-> p.leliq,
       pasesActivos |-> p.pasesActivos, pasesPasivos |-> p.pasesPasivos] :
        r \in SeriesOver(ModelDates, ReservesValues),
        b \in SeriesOver(ModelDates, BaseValues),
        u \in SeriesOver(ModelDates, UsdValues),
        p \in PasivosOptions }

InitBacking ==
    /\ pc = "ready"
    /\ runInputs \in BackingInputs
    /\ seriesArray = <<>>
    /\ source = <<>>
    /\ Idle

ExecuteReservesBacking ==
    /\ pc = "ready"
    /\ LET reservesToBaseResults == calculateReservesToBaseRatio(runInputs)
           passivesResults == IF hasPasivosData(runInputs)
                              THEN calculatePassivesVsReservesRatio(runInputs)
                              ELSE <<>>
           res == reservesToBaseResults \o passivesResults
       IN /\ results' = res
          /\ mainAligned' = alignMainSeries(runInputs)
          /\ \E dbOk \in BOOLEAN : persistResults(results', dbOk)
    /\ pc' = "done"
    /\ UNCHANGED <<seriesArray, alignedOut, runInputs, source, pendingReads,
                   loaded, calcDone, thrown,
                   history>>

NextBacking == ExecuteReservesBacking

SpecBacking == InitBacking /\ [][NextBacking]_vars

---------------------------------------------------------------------------
(* BusinessDaysService: dates are day numbers from 2024-01-01, a Monday *)

ARGENTINE_HOLIDAYS_2024 ==
    {0, 83, 88, 92, 121, 145, 168, 171, 190, 229, 285, 322, 342, 359}

ARGENTINE_HOLIDAYS_2025 ==
    {366, 448, 473, 476, 486, 510, 532, 536, 555, 595, 650, 686, 707, 724}

ALL_HOLIDAYS == ARGENTINE_HOLIDAYS_2024 \cup ARGENTINE_HOLIDAYS_2025

\* Date.getDay(): 0 is Sunday, 6 is Saturday
getDay(date) == (date + 1) % 7

isBusinessDay(date) ==
    IF getDay(date) = 0 \/ getDay(date) = 6 THEN FALSE
    ELSE date \notin ALL_HOLIDAYS

RECURSIVE stepBackToBusinessDay(_)
stepBackToBusinessDay(prevDay) ==
    IF isBusinessDay(prevDay) THEN prevDay
    ELSE stepBackToBusinessDay(prevDay - 1)

previousBusinessDay(date) == stepBackToBusinessDay(date - 1)

\* the loop "result = previousBusinessDay(result)" run `days` times; the
\* iterations are evaluated in two halves, and the test on `result` makes
\* the first half's value be computed before the second
RECURSIVE subtractBusinessDays(_, _)
subtractBusinessDays(date, days) ==
    IF days <= 0 THEN date
    ELSE IF days = 1 THEN previousBusinessDay(date)
    ELSE LET result == subtractBusinessDays(date, days \div 2)
         IN IF result \in Int
            THEN subtractBusinessDays(result, days - days \div 2)
            ELSE result

---------------------------------------------------------------------------
(* DeltaBaseUseCase and DeltaReservesUseCase: the same code over two       *)
(* families, "base" (windows 7, 30, 90) and "reserves" (windows 7, 30)     *)

DELTA_WINDOWS(family) == IF family = "base" THEN <<7, 30, 90>> ELSE <<7, 30>>

MILLION == 1000000

\* SeriesUtils.getValueAtDate: the first point dated targetDate, or null
getValueAtDate(points, targetDate) ==
    IF \E i \in 1..Len(points) : points[i].ts = targetDate
    THEN [isNull |-> FALSE,
          value |-> points[SetMin({i \in 1..Len(points) :
                                      points[i].ts = targetDate})].value]
    ELSE [isNull |-> TRUE, value |-> 0]

\* faulty variant: falls back to the latest point before the reference date
findReferencePoint_nearestEarlier(sorted, currentPoint, windowDays) ==
    LET referenceDate == subtractBusinessDays(currentPoint.ts, windowDays)
        atOrBefore == {i \in 1..Len(sorted) : sorted[i].ts <= referenceDate}
    IN IF atOrBefore = {}
       THEN [isNull |-> TRUE, point |-> Point(0, 0), dateStr |-> 0]
       ELSE [isNull |-> FALSE,
             point |-> sorted[CHOOSE i \in atOrBefore : \A j \in atOrBefore : j <= i],
             dateStr |-> referenceDate]

findReferencePoint(sorted, currentPoint, windowDays) ==
    LET referenceDate == subtractBusinessDays(currentPoint.ts, windowDays)
        referenceValue == getValueAtDate(sorted, referenceDate)
    IN IF referenceValue.isNull
       THEN [isNull |-> TRUE, point |-> Point(0, 0), dateStr |-> 0]
       ELSE [isNull |-> FALSE,
             point |-> sorted[SetMin({i \in 1..Len(sorted) :
                                         sorted[i].ts = referenceDate})],
             dateStr |-> referenceDate]

\* faulty variant: the zero check on the reference value is missing
canCalculateDelta_noZeroCheck(reference) == ~reference.isNull

canCalculateDelta(reference) == ~reference.isNull /\ reference.point.value # 0

\* faulty variant: every value is divided by one million
normalizeToMillions_always(value) == NumDiv(Num(value), Num(MILLION))

normalizeToMillions(value) ==
    IF value > MILLION THEN NumDiv(Num(value), Num(MILLION)) ELSE Num(value)

DeltaMetricId(family, windowDays, mode) ==
    <<"delta." \o family, ToString(windowDays) \o "d." \o mode>>

createDeltaResult(metricId, ts, value, mode, currentValue, referenceValue,
                  referenceDate, units) ==
    MetricPoint(metricId, ts, value,
                [window |-> metricId[2],
                 mode |-> mode,
                 current |-> currentValue,
                 reference |-> referenceValue,
                 reference_date |-> referenceDate,
                 units |-> units])

computeAbsoluteAndPercentageDeltas(family, currentPoint, reference, windowDays) ==
    LET currentMillions == normalizeToMillions(currentPoint.value)
        referenceMillions == normalizeToMillions(reference.point.value)
        absoluteDelta == NumSub(currentMillions, referenceMillions)
        percentageDelta ==
            NumMul(NumSub(NumDiv(Num(currentPoint.value), Num(reference.point.value)),
                          Num(1)),
                   Num(100))
    IN << createDeltaResult(DeltaMetricId(family, windowDays, "abs"),
                            currentPoint.ts, absoluteDelta, "abs", currentMillions,
                            referenceMillions, reference.dateStr,
                            IF family = "base" THEN "million_ARS" ELSE "million_USD"),
          createDeltaResult(DeltaMetricId(family, windowDays, "pct"),
                            currentPoint.ts, percentageDelta, "pct", currentMillions,
                            referenceMillions, reference.dateStr, "percent") >>

RECURSIVE deltasForWindowFrom(_, _, _, _, _)
deltasForWindowFrom(family, sorted, windowDays, i, acc) ==
    IF i > Len(sorted) THEN acc
    ELSE LET currentPoint == sorted[i]
             referencePoint == findReferencePoint(sorted, currentPoint, windowDays)
         IN deltasForWindowFrom(family, sorted, windowDays, i + 1,
                IF canCalculateDelta(referencePoint)
                THEN acc \o computeAbsoluteAndPercentageDeltas(family, currentPoint,
                                 referencePoint, windowDays)
                ELSE acc)

calculateDeltasForWindow(family, sorted, windowDays) ==
    deltasForWindowFrom(family, sorted, windowDays, 1, <<>>)

RECURSIVE allDeltasFrom(_, _, _, _)
allDeltasFrom(family, sorted, w, acc) ==
    IF w > Len(DELTA_WINDOWS(family)) THEN acc
    ELSE allDeltasFrom(family, sorted, w + 1,
             acc \o calculateDeltasForWindow(family, sorted, DELTA_WINDOWS(family)[w]))

calculateAllDeltas(family, sorted) == allDeltasFrom(family, sorted, 1, <<>>)

---------------------------------------------------------------------------
(* SpecDelta: DeltaBaseUseCase.execute / DeltaReservesUseCase.execute *)

\* 2024-05-22 (142) and its references 7, 30 and 90 business days back
\* (133, 99, 11), plus 134, the calendar day after the 7-day reference
DeltaDates == {11, 99, 133, 134, 142}

\* raw values: 0, one value below 1,000,000 that is above the other two
\* once they are divided by 1,000,000, and two values above 1,000,000
DeltaValues == {0, 900000, 5300000, 5500000}

InitDelta ==
    /\ pc = "ready"
    /\ \E s \in SeriesOver(DeltaDates, DeltaValues) : runInputs = [series |-> s]
    /\ seriesArray = <<>>
    /\ source = <<>>
    /\ Idle

ExecuteDelta(family) ==
    /\ pc = "ready"
    /\ LET sorted == sortByDate(runInputs.series)
           res == calculateAllDeltas(family, sorted)
       IN /\ results' = res
          /\ \E dbOk \in BOOLEAN : persistResults(results', dbOk)
    /\ pc' = "done_" \o family
    /\ UNCHANGED <<seriesArray, alignedOut, runInputs, mainAligned, source,
                   pendingReads, loaded, calcDone, thrown,
                   history>>

ExecuteDeltaBase == ExecuteDelta("base")

ExecuteDeltaReserves == ExecuteDelta("reserves")

NextDelta == ExecuteDeltaBase \/ ExecuteDeltaReserves

SpecDelta == InitDelta /\ [][NextDelta]_vars

---------------------------------------------------------------------------
(* StatisticsService and FxVolatilityUseCase.  Math.log and Math.sqrt have  *)
(* no rational value: a log return is kept as the term [ln |-> ratio] and   *)
(* a standard deviation as the term [stdevOf |-> values, divisor |-> n].    *)

\* values[first] + ... + values[last], added in two halves
RECURSIVE SumOf(_, _, _)
SumOf(values, first, last) ==
    IF first > last THEN 0
    ELSE IF first = last THEN values[first]
    ELSE LET mid == (first + last) \div 2
         IN SumOf(values, first, mid) + SumOf(values, mid + 1, last)

\* StatisticsService.mean over integer-valued prices
mean(values) ==
    IF Len(values) = 0 THEN Num(0)
    ELSE NumDiv(Num(SumOf(values, 1, Len(values))), Num(Len(values)))

\* StatisticsService.standardDeviation (population: the variance is the
\* mean of the squared differences)
standardDeviation(values) ==
    IF Len(values) <= 1 THEN [stdevOf |-> <<>>, divisor |-> 1]
    ELSE [stdevOf |-> values, divisor |-> Len(values)]

stdev(values) == standardDeviation(values)

simpleMovingAverage(values, window) ==
    IF Len(values) < window THEN <<>>
    ELSE [j \in 1..(Len(values) - window + 1) |->
             mean(SubSeq(values, j, j + window - 1))]

MathLog(x) == [ln |-> x]

\* the loop body for position i (1-based, i >= 2): the log return of the
\* pair, or nothing when the earlier price is 0
logReturnAt(sortedSeries, i) ==
    LET pt == sortedSeries[i].value
        ptMinus1 == sortedSeries[i - 1].value
    IN IF ptMinus1 # 0
       THEN <<[ts |-> sortedSeries[i].ts,
               value |-> MathLog(NumDiv(Num(pt), Num(ptMinus1)))]>>
       ELSE <<>>

\* the log returns the loop pushes for positions first..last, in that order;
\* the run of iterations is evaluated in two halves
RECURSIVE logReturnsFrom(_, _, _)
logReturnsFrom(sortedSeries, first, last) ==
    IF first > last THEN <<>>
    ELSE IF first = last THEN logReturnAt(sortedSeries, first)
    ELSE LET mid == (first + last) \div 2
         IN logReturnsFrom(sortedSeries, first, mid)
            \o logReturnsFrom(sortedSeries, mid + 1, last)

\* SeriesUtils.calculateLogReturns
calculateLogReturns(series) ==
    IF Len(series) < 2 THEN <<>>
    ELSE LET sortedSeries == sortByDate(series)
         IN logReturnsFrom(sortedSeries, 2, Len(sortedSeries))

VOLATILITY_WINDOWS == <<7, 30>>
TREND_MA_SHORT == 14
TREND_MA_LONG == 30

validateInputData(inputs) == Len(inputs.usdOfficial) >= TREND_MA_LONG

prepareVolatilityData(inputs) ==
    LET sortedUsd == sortByDate(inputs.usdOfficial)
    IN [sortedUsd |-> sortedUsd,
        logReturns |-> calculateLogReturns(sortedUsd),
        prices |-> [i \in 1..Len(sortedUsd) |-> sortedUsd[i].value]]

\* logReturns.slice(endIndex - window + 1, endIndex + 1), endIndex counted
\* from 1 here
extractWindowReturns(logReturns, endIndex, window) ==
    [j \in 1..window |-> logReturns[endIndex - window + j].value]

\* sortedUsd[logReturnIndex + 1], logReturnIndex counted from 1 here
getTimestampForVolatility(sortedUsd, logReturnIndex) ==
    sortedUsd[logReturnIndex + 1].ts

createVolatilityResult(ts, window, volatility) ==
    MetricPoint(<<"fx.vol", ToString(window) \o "d.usd">>, ts, volatility,
                [window |-> ToString(window) \o "d", return |-> "log",
                 volatility_type |-> "standard_deviation", units |-> "ratio"])

calculateVolatilityForWindow(data, window) ==
    [k \in 1..(Len(data.logReturns) - window + 1) |->
        LET i == k + window - 1
        IN createVolatilityResult(
               getTimestampForVolatility(data.sortedUsd, i), window,
               stdev(extractWindowReturns(data.logReturns, i, window)))]

calculateVolatilityMetrics(data) ==
    IF Len(data.logReturns) < VOLATILITY_WINDOWS[2] THEN <<>>
    ELSE calculateVolatilityForWindow(data, VOLATILITY_WINDOWS[1])
         \o calculateVolatilityForWindow(data, VOLATILITY_WINDOWS[2])

calculateMovingAverages(prices) ==
    [ma14 |-> simpleMovingAverage(prices, TREND_MA_SHORT),
     ma30 |-> simpleMovingAverage(prices, TREND_MA_LONG)]

isValidNumber(value) == ~isNaN(value) /\ isFinite(value)

computeTrendValue(ma14, ma30) == NumSub(ma14, ma30)

createTrendResult(ts, trend, ma14, ma30) ==
    MetricPoint(<<"fx.trend", "14v30.usd">>, ts, trend,
                [window |-> "14v30", units |-> "ARS",
                 ma14_len |-> TREND_MA_SHORT, ma30_len |-> TREND_MA_LONG,
                 ma_14 |-> ma14, ma_30 |-> ma30])

\* the loop of computeTrendFromMovingAverages; i, ma14Index and ma30Index
\* are the code's 0-based indices
RECURSIVE trendFrom(_, _, _, _)
trendFrom(movingAverages, sortedUsd, i, acc) ==
    IF i >= Len(sortedUsd) THEN acc
    ELSE LET startIndex == TREND_MA_LONG - 1
             ma14StartIndex == startIndex - (TREND_MA_LONG - TREND_MA_SHORT)
             ma14Index == i - startIndex + ma14StartIndex
             ma30Index == i - startIndex
             inRange == /\ ma14Index >= 0
                        /\ ma14Index < Len(movingAverages.ma14)
                        /\ ma30Index >= 0
                        /\ ma30Index < Len(movingAverages.ma30)
         IN trendFrom(movingAverages, sortedUsd, i + 1,
                IF inRange
                   /\ isValidNumber(movingAverages.ma14[ma14Index + 1])
                   /\ isValidNumber(movingAverages.ma30[ma30Index + 1])
                   /\ isValidNumber(computeTrendValue(movingAverages.ma14[ma14Index + 1],
                                                      movingAverages.ma30[ma30Index + 1]))
                THEN Append(acc,
                        createTrendResult(sortedUsd[i + 1].ts,
                            computeTrendValue(movingAverages.ma14[ma14Index + 1],
                                              movingAverages.ma30[ma30Index + 1]),
                            movingAverages.ma14[ma14Index + 1],
                            movingAverages.ma30[ma30Index + 1]))
                ELSE acc)

computeTrendFromMovingAverages(movingAverages, sortedUsd) ==
    trendFrom(movingAverages, sortedUsd, TREND_MA_LONG - 1, <<>>)

calculateTrendMetrics(data) ==
    IF Len(data.prices) < TREND_MA_LONG THEN <<>>
    ELSE computeTrendFromMovingAverages(calculateMovingAverages(data.prices),
                                        data.sortedUsd)

---------------------------------------------------------------------------
(* SpecFx: FxVolatilityUseCase.execute over one FX price series *)

BasePrice == 1000
OddPrices == {0, 1300}
MinPrices == TREND_MA_LONG - 1

\* a series of len daily prices, all BasePrice except the price at position
\* k, which is v
PriceSeries(len, k, v) ==
    [i \in 1..len |-> Point(i, IF i = k THEN v ELSE BasePrice)]

FxInputs ==
    {PriceSeries(len, k, v) : len \in MinPrices..MaxPrices, k \in 1..MaxPrices,
                              v \in OddPrices}

InitFx ==
    /\ pc = "ready"
    /\ \E s \in FxInputs : runInputs = [usdOfficial |-> s]
    /\ seriesArray = <<>>
    /\ source = <<>>
    /\ Idle

fxVolatilityResults(inputs) ==
    IF ~validateInputData(inputs) THEN <<>>
    ELSE LET preparedData == prepareVolatilityData(inputs)
         IN calculateVolatilityMetrics(preparedData)
            \o calculateTrendMetrics(preparedData)

ExecuteFxVolatility ==
    /\ pc = "ready"
    /\ results' = fxVolatilityResults(runInputs)
    /\ \E dbOk \in BOOLEAN : persistResults(results', dbOk)
    /\ pc' = "done"
    /\ UNCHANGED <<seriesArray, alignedOut, runInputs, mainAligned, source,
                   pendingReads, loaded, calcDone, thrown, history>>

NextFx == ExecuteFxVolatility

SpecFx == InitFx /\ [][NextFx]_vars

---------------------------------------------------------------------------
(* FxLocalPressureUseCase *)

WINDOW_SIZE == 30

Null == [isNull |-> TRUE, value |-> NaN]
NonNull(x) == [isNull |-> FALSE, value |-> x]

Present(opt) == IF opt.some /\ Len(opt.v) > 0 THEN <<opt.v>> ELSE <<>>

getAvailableBasketCurrencies(inputs) ==
    Present(inputs.brl) \o Present(inputs.clp) \o Present(inputs.mxn)
    \o Present(inputs.cop)

validateBasketCurrencies(basketCurrencies) == Len(basketCurrencies) >= 2

alignAllSeries(inputs, basketCurrencies) ==
    LET alignedSeries == alignMultipleSeries(<<inputs.usd>> \o basketCurrencies)
    IN IF Len(alignedSeries[1]) = 0
       THEN [isNull |-> TRUE, alignedUsd |-> <<>>, alignedBasket |-> <<>>]
       ELSE [isNull |-> FALSE, alignedUsd |-> alignedSeries[1],
             alignedBasket |-> SubSeq(alignedSeries, 2, Len(alignedSeries))]

validateAlignedData(alignedData) ==
    ~alignedData.isNull /\ Len(alignedData.alignedUsd) >= WINDOW_SIZE

normalizeValue(current, reference) ==
    IF reference = 0 THEN Null
    ELSE NonNull(NumSub(NumDiv(Num(current), Num(reference)), Num(1)))

\* currentIndex and referenceIndex are the code's 0-based indices
calculateUsdNormalization(usdPrices, currentIndex, referenceIndex) ==
    normalizeValue(usdPrices[currentIndex + 1], usdPrices[referenceIndex + 1])

\* the non-null normalizations of the basket members, in basket order
RECURSIVE basketNormalizations(_, _, _, _)
basketNormalizations(basketPrices, currentIndex, referenceIndex, idx) ==
    IF idx > Len(basketPrices) THEN <<>>
    ELSE LET norm == normalizeValue(basketPrices[idx][currentIndex + 1],
                                    basketPrices[idx][referenceIndex + 1])
         IN (IF norm.isNull THEN <<>> ELSE <<norm.value>>)
            \o basketNormalizations(basketPrices, currentIndex, referenceIndex, idx + 1)

RECURSIVE NumSum(_, _)
NumSum(values, i) ==
    IF i > Len(values) THEN Num(0) ELSE NumAdd(values[i], NumSum(values, i + 1))

calculateBasketNormalization(basketPrices, currentIndex, referenceIndex) ==
    LET norms == basketNormalizations(basketPrices, currentIndex, referenceIndex, 1)
    IN IF Len(norms) = 0 THEN Null
       ELSE NonNull(NumDiv(NumSum(norms, 1), Num(Len(norms))))

computeLocalPressure(usdNormalization, basketNormalization) ==
    NumSub(usdNormalization, basketNormalization)

createLocalPressureResult(ts, localPressure, usdNormalization, basketNormalization) ==
    MetricPoint(<<"fx.local", "pressure", "30d.usd">>, ts, localPressure,
                [window |-> "30d", usd_normalization |-> usdNormalization,
                 basket_normalization |-> basketNormalization, units |-> "ratio"])

\* the reference position the loop pairs with position i (both 0-based)
referenceIndexOf(i) == i - WINDOW_SIZE + 1

RECURSIVE localPressureFrom(_, _, _, _, _)
localPressureFrom(alignedUsd, usdPrices, basketPrices, i, acc) ==
    IF i >= Len(alignedUsd) THEN acc
    ELSE LET referenceIndex == referenceIndexOf(i)
             usdNormalization == calculateUsdNormalization(usdPrices, i, referenceIndex)
             basketNormalization ==
                 calculateBasketNormalization(basketPrices, i, referenceIndex)
         IN localPressureFrom(alignedUsd, usdPrices, basketPrices, i + 1,
                IF usdNormalization.isNull \/ basketNormalization.isNull THEN acc
                ELSE Append(acc,
                        createLocalPressureResult(alignedUsd[i + 1].ts,
                            computeLocalPressure(usdNormalization.value,
                                                 basketNormalization.value),
                            usdNormalization.value, basketNormalization.value)))

PricesOf(series) == [i \in 1..Len(series) |-> series[i].value]

calculateLocalPressureForAlignedData(alignedData) ==
    localPressureFrom(alignedData.alignedUsd, PricesOf(alignedData.alignedUsd),
                      [c \in 1..Len(alignedData.alignedBasket) |->
                          PricesOf(alignedData.alignedBasket[c])],
                      WINDOW_SIZE - 1, <<>>)

fxLocalPressureResults(inputs) ==
    LET basketCurrencies == getAvailableBasketCurrencies(inputs)
    IN IF ~validateBasketCurrencies(basketCurrencies) THEN <<>>
       ELSE LET alignedData == alignAllSeries(inputs, basketCurrencies)
            IN IF ~validateAlignedData(alignedData) THEN <<>>
               ELSE calculateLocalPressureForAlignedData(alignedData)

---------------------------------------------------------------------------
(* SpecPressure: FxLocalPressureUseCase.execute on one inputs record *)

PressureDates == {1..len : len \in (WINDOW_SIZE - 1)..MaxPressureDates}

\* a currency quoted on every date of `dates`: start + step * date, with the
\* price on the dates of `zeroOn` replaced by 0
Quotes(dates, start, step, zeroOn) ==
    AscendingFrom([d \in dates |-> IF d \in zeroOn THEN 0 ELSE start + step * d],
                  dates)

BasketOptions(dates, start, step) ==
    {None, Some(<<>>), Some(Quotes(dates, start, step, {})),
     Some(Quotes(dates, start, step, {1}))}

PressureInputs ==
    UNION {[usd : {Quotes(dates, 100, 1, {}), Quotes(dates, 100, 1, {2})},
            brl : BasketOptions(dates, 50, 1),
            clp : BasketOptions(dates, 900, 0),
            mxn : BasketOptions(dates, 20, 0) \ {Some(<<>>)},
            cop : {None, Some(Quotes(dates \ {1}, 7, 0, {}))}] :
           dates \in PressureDates}

InitPressure ==
    /\ pc = "ready"
    /\ runInputs \in PressureInputs
    /\ seriesArray = <<>>
    /\ source = <<>>
    /\ Idle

ExecuteFxLocalPressure ==
    /\ pc = "ready"
    /\ results' = fxLocalPressureResults(runInputs)
    /\ \E dbOk \in BOOLEAN : persistResults(results', dbOk)
    /\ pc' = "done"
    /\ UNCHANGED <<seriesArray, alignedOut, runInputs, mainAligned, source,
                   pendingReads, loaded, calcDone, thrown, history>>

NextPressure == ExecuteFxLocalPressure

SpecPressure == InitPressure /\ [][NextPressure]_vars

---------------------------------------------------------------------------
(* DataHealthUseCase.  A Date with a time of day is [day, hours]: `hours`  *)
(* whole hours after 00:00 UTC of day number `day`; the ts of a point is a *)
(* date string, i.e. 00:00 UTC of its day.                                 *)

FRESHNESS_THRESHOLD_HOURS == 24
COVERAGE_THRESHOLD_BUSINESS_DAYS == 90

DateAt(day, hours) == [day |-> day, hours |-> hours]

\* new Date(ts) for a date string
parseDate(ts) == DateAt(ts, 0)

getTime(date) == date.day * 24 + date.hours

hasValidSeriesData(seriesData) == Len(seriesData.points) > 0

sortSeriesByDate(points) == sortByDate(points)

calculateHoursDifference(date1, date2) == Abs(getTime(date1) - getTime(date2))

\* difference in days; the dates compared are both at 00:00 UTC
calculateDaysDifference(date1, date2) == Abs(date1.day - date2.day)

createFreshnessResult(seriesId, ts, isFresh, hoursSinceLastUpdate) ==
    MetricPoint(<<"data.freshness." \o seriesId>>, ts, Num(hoursSinceLastUpdate),
                [is_fresh |-> isFresh, threshold_hours |-> FRESHNESS_THRESHOLD_HOURS,
                 hours_since_last_update |-> hoursSinceLastUpdate, units |-> "hours"])

calculateFreshnessMetric(seriesId, sortedPoints, today) ==
    IF Len(sortedPoints) = 0 THEN <<>>
    ELSE LET lastPoint == sortedPoints[Len(sortedPoints)]
             hoursSinceLastUpdate ==
                 calculateHoursDifference(today, parseDate(lastPoint.ts))
         IN <<createFreshnessResult(seriesId, lastPoint.ts,
                  hoursSinceLastUpdate <= FRESHNESS_THRESHOLD_HOURS,
                  hoursSinceLastUpdate)>>

filterPointsInPeriod(points, startDate, endDate) ==
    SelectSeq(points, LAMBDA point :
        /\ getTime(parseDate(point.ts)) >= getTime(startDate)
        /\ getTime(parseDate(point.ts)) <= getTime(endDate))

\* the loop visits startDate, startDate + 1 day, ... while <= endDate; the
\* two dates carry the same time of day
countBusinessDaysInPeriod(points, startDate, endDate) ==
    Cardinality({d \in startDate.day..endDate.day :
                    isBusinessDay(d) /\ d \in DatesOf(points)})

createCoverageResult(seriesId, ts, coverageRatio, actualDays, expectedDays) ==
    MetricPoint(<<"data.coverage." \o seriesId>>, ts, coverageRatio,
                [basis |-> "business_days", window |-> "90bd",
                 actual_days |-> actualDays, expected_days |-> expectedDays,
                 units |-> "ratio"])

calculateCoverageMetric(seriesId, sortedPoints, today) ==
    LET ninetyBusinessDaysAgo ==
            DateAt(subtractBusinessDays(today.day, COVERAGE_THRESHOLD_BUSINESS_DAYS),
                   today.hours)
        coveragePeriod == filterPointsInPeriod(sortedPoints, ninetyBusinessDaysAgo, today)
        expectedBusinessDays == COVERAGE_THRESHOLD_BUSINESS_DAYS
        actualBusinessDays ==
            countBusinessDaysInPeriod(coveragePeriod, ninetyBusinessDaysAgo, today)
    IN <<createCoverageResult(seriesId, today.day,
             NumDiv(Num(actualBusinessDays), Num(expectedBusinessDays)),
             actualBusinessDays, expectedBusinessDays)>>

\* faulty variant: a gap is given the whole distance between its two points
identifyGapsInSeries_wholeDistance(sortedPoints) ==
    LET gapAt(i) == calculateDaysDifference(parseDate(sortedPoints[i].ts),
                                            parseDate(sortedPoints[i - 1].ts))
    IN [k \in 1..Len(SelectSeq([i \in 1..(Len(sortedPoints) - 1) |-> i + 1],
                               LAMBDA i : gapAt(i) > 1)) |->
          LET i == SelectSeq([j \in 1..(Len(sortedPoints) - 1) |-> j + 1],
                             LAMBDA j : gapAt(j) > 1)[k]
          IN [start |-> sortedPoints[i - 1].ts, end |-> sortedPoints[i].ts,
              days |-> gapAt(i)]]

identifyGapsInSeries(sortedPoints) ==
    LET gapAt(i) == calculateDaysDifference(parseDate(sortedPoints[i].ts),
                                            parseDate(sortedPoints[i - 1].ts))
    IN [k \in 1..Len(SelectSeq([i \in 1..(Len(sortedPoints) - 1) |-> i + 1],
                               LAMBDA i : gapAt(i) > 1)) |->
          LET i == SelectSeq([j \in 1..(Len(sortedPoints) - 1) |-> j + 1],
                             LAMBDA j : gapAt(j) > 1)[k]
          IN [start |-> sortedPoints[i - 1].ts, end |-> sortedPoints[i].ts,
              days |-> gapAt(i) - 1]]

calculateMaxGapDays(gaps) ==
    IF Len(gaps) = 0 THEN 0
    ELSE CHOOSE m \in {gaps[k].days : k \in 1..Len(gaps)} :
            \A k \in 1..Len(gaps) : gaps[k].days <= m

createGapsResult(seriesId, ts, totalGaps, maxGapDays) ==
    MetricPoint(<<"data.gaps." \o seriesId>>, ts, Num(totalGaps),
                [total_gaps |-> totalGaps, max_gap_days |-> maxGapDays,
                 units |-> "count"])

calculateGapsMetric(seriesId, sortedPoints) ==
    IF Len(sortedPoints) < 2 THEN <<>>
    ELSE LET gaps == identifyGapsInSeries(sortedPoints)
         IN <<createGapsResult(seriesId, sortedPoints[Len(sortedPoints)].ts,
                               Len(gaps), calculateMaxGapDays(gaps))>>

calculateHealthMetricsForSeries(seriesData, today) ==
    LET sortedPoints == sortSeriesByDate(seriesData.points)
    IN calculateFreshnessMetric(seriesData.seriesId, sortedPoints, today)
       \o calculateCoverageMetric(seriesData.seriesId, sortedPoints, today)
       \o calculateGapsMetric(seriesData.seriesId, sortedPoints)

RECURSIVE dataHealthResultsFrom(_, _, _)
dataHealthResultsFrom(series, today, i) ==
    IF i > Len(series) THEN <<>>
    ELSE (IF hasValidSeriesData(series[i])
          THEN calculateHealthMetricsForSeries(series[i], today)
          ELSE <<>>)
         \o dataHealthResultsFrom(series, today, i + 1)

---------------------------------------------------------------------------
(* SpecHealth: DataHealthUseCase.execute; runInputs.now is the value       *)
(* new Date() has during the run                                           *)

\* 2024-08-09, a Friday, and 2024-08-10, a Saturday
RunDays == {221, 222}
RunHours == {0, 12}


\* days a long series may lack: the first days of the coverage windows of
\* RunDays (2024-03-28, 2024-04-01), 2024-05-30 and 2024-08-09
DroppedDays == {87, 91, 150, 221}

\* the business days from 2024-03-21, before every coverage window of RunDays
LongSeriesDays == {d \in 80..222 : isBusinessDay(d)}

HealthDateSets ==
    {LongSeriesDays \ dropped : dropped \in SUBSET DroppedDays}
    \cup {{}, {221}, {0, 9}, {0, 1, 9, 12, 13}}

HealthSeries(seriesId, dates) ==
    [seriesId |-> seriesId, points |-> AscendingFrom([d \in dates |-> 1], dates)]

HealthInputs ==
    {<<HealthSeries("1", dates)>> : dates \in HealthDateSets}
    \cup {<<HealthSeries("1", {0, 9}), HealthSeries("15", dates)>> :
             dates \in {{}, {0, 1, 9, 12, 13}, LongSeriesDays}}
    \cup {<<[seriesId |-> "1", points |-> Reversed(HealthSeries("1", dates).points)]>> :
             dates \in {{0, 9}, {0, 1, 9, 12, 13}}}

InitHealth ==
    /\ pc = "ready"
    /\ \E series \in HealthInputs, day \in RunDays, hours \in RunHours :
          runInputs = [series |-> series, now |-> DateAt(day, hours)]
    /\ seriesArray = <<>>
    /\ source = <<>>
    /\ Idle

ExecuteDataHealth ==
    /\ pc = "ready"
    /\ results' = dataHealthResultsFrom(runInputs.series, runInputs.now, 1)
    /\ \E dbOk \in BOOLEAN : persistResults(results', dbOk)
    /\ pc' = "done"
    /\ UNCHANGED <<seriesArray, alignedOut, runInputs, mainAligned, source,
                   pendingReads, loaded, calcDone, thrown, history>>

NextHealth == ExecuteDataHealth

SpecHealth == InitHealth /\ [][NextHealth]_vars

---------------------------------------------------------------------------
(* DualDatabaseMetricsEngine: the calculators *)

\* JavaScript truthiness of a number: neither 0 nor NaN
Truthy(x) == ~isNaN(x) /\ x.n # 0

\* x || 0
OrZero(x) == IF Truthy(x) THEN x ELSE Num(0)

\* faulty variant: one of the two required series is enough
hasRequiredInputs_either(inputs) == Len(inputs.reservas) > 0 \/ Len(inputs.base) > 0

hasRequiredInputs(inputs) == Len(inputs.reservas) > 0 /\ Len(inputs.base) > 0

RECURSIVE engineReservesToBaseFrom(_, _, _, _)
engineReservesToBaseFrom(reservas, baseMap, i, acc) ==
    IF i > Len(reservas) THEN acc
    ELSE LET reserva == reservas[i]
             hasBase == reserva.ts \in DOMAIN baseMap.val
         IN engineReservesToBaseFrom(reservas, baseMap, i + 1,
                IF hasBase /\ baseMap.val[reserva.ts] # 0
                THEN Append(acc,
                       MetricPoint(<<"ratio.reserves", "to", "base">>, reserva.ts,
                                   NumDiv(Num(reserva.value), Num(baseMap.val[reserva.ts])),
                                   [reserves |-> reserva.value,
                                    base |-> baseMap.val[reserva.ts]]))
                ELSE acc)

computeReservesToBase(inputs) ==
    engineReservesToBaseFrom(inputs.reservas, toMap(inputs.base), 1, <<>>)

\* loop shared by computeReserves7d, computeBase30d and computeReserves5d:
\* the point lagDays positions earlier in the sorted array is the reference
lagMetadata(current, previous, lagDays) ==
    IF lagDays = 5
    THEN [current |-> current.value, previous |-> previous.value,
          lag_days |-> lagDays, base_ts |-> previous.ts, window |-> "5d",
          units |-> "ratio"]
    ELSE [current |-> current.value, previous |-> previous.value,
          lag_days |-> lagDays]

RECURSIVE lagDeltasFrom(_, _, _, _, _)
lagDeltasFrom(sorted, lagDays, metricId, i, acc) ==
    IF i > Len(sorted) THEN acc
    ELSE LET current == sorted[i]
             previous == sorted[i - lagDays]
         IN lagDeltasFrom(sorted, lagDays, metricId, i + 1,
                IF previous.value # 0
                THEN Append(acc,
                       MetricPoint(metricId, current.ts,
                                   NumDiv(Num(current.value - previous.value),
                                          Num(previous.value)),
                                   lagMetadata(current, previous, lagDays)))
                ELSE acc)

computeReserves7d(inputs) ==
    lagDeltasFrom(sortByDate(inputs.reservas), 7, <<"delta.reserves", "7d">>, 8, <<>>)

computeBase30d(inputs) ==
    lagDeltasFrom(sortByDate(inputs.base), 30, <<"delta.base", "30d">>, 31, <<>>)

computeReserves5d(inputs) ==
    lagDeltasFrom(sortByDate(inputs.reservas), 5, <<"delta.reserves", "5d">>, 6, <<>>)

\* keys of a Set built by spreading the key lists one after the other
RECURSIVE appendNew(_, _, _)
appendNew(keys, more, i) ==
    IF i > Len(more) THEN keys
    ELSE appendNew(IF more[i] \in SeqRange(keys) THEN keys ELSE Append(keys, more[i]),
                   more, i + 1)

\* map.get(date) || 0
GetOrZero(map, date) ==
    IF date \in DOMAIN map.val /\ map.val[date] # 0 THEN map.val[date] ELSE 0

missingComponentsAt(leliqMap, pasesPasivosMap, pasesActivosMap, date) ==
    (IF date \in DOMAIN leliqMap.val THEN <<>> ELSE <<"leliq">>)
    \o (IF date \in DOMAIN pasesPasivosMap.val THEN <<>> ELSE <<"pases_pasivos">>)
    \o (IF date \in DOMAIN pasesActivosMap.val THEN <<>> ELSE <<"pases_activos">>)

computePasivosRem(inputs) ==
    IF ~inputs.leliq.some \/ ~inputs.pasesPasivos.some \/ ~inputs.pasesActivos.some
    THEN <<>>
    ELSE LET leliqMap == toMap(inputs.leliq.v)
             pasesPasivosMap == toMap(inputs.pasesPasivos.v)
             pasesActivosMap == toMap(inputs.pasesActivos.v)
             allDates == appendNew(appendNew(leliqMap.keys, pasesPasivosMap.keys, 1),
                                   pasesActivosMap.keys, 1)
         IN [i \in 1..Len(allDates) |->
               LET date == allDates[i]
                   leliqValue == GetOrZero(leliqMap, date)
                   pasesPasivosValue == GetOrZero(pasesPasivosMap, date)
                   pasesActivosValue == GetOrZero(pasesActivosMap, date)
               IN MetricPoint(<<"mon.pasivos", "rem", "ars">>, date,
                              Num(leliqValue + pasesPasivosValue + pasesActivosValue),
                              [leliq |-> leliqValue,
                               pases_pasivos |-> pasesPasivosValue,
                               pases_activos |-> pasesActivosValue,
                               missing_components |->
                                   missingComponentsAt(leliqMap, pasesPasivosMap,
                                                       pasesActivosMap, date)])]

computeBaseAmpliada(inputs) ==
    LET baseMap == toMap(inputs.base)
        pasivosRemMap == toMap(computePasivosRem(inputs))
    IN [i \in 1..Len(baseMap.keys) |->
          LET date == baseMap.keys[i]
              baseValue == baseMap.val[date]
              pasivosValue == IF date \in DOMAIN pasivosRemMap.val
                              THEN OrZero(pasivosRemMap.val[date])
                              ELSE Num(0)
          IN MetricPoint(<<"mon.base", "ampliada", "ars">>, date,
                         NumAdd(Num(baseValue), pasivosValue),
                         [base |-> baseValue, pasivos_rem |-> pasivosValue])]

FirstAt(points, ts) == points[SetMin({i \in 1..Len(points) : points[i].ts = ts})]

selectOfficialFx(ts, inputs) ==
    IF inputs.tcOficialPref.some /\ ts \in DatesOf(inputs.tcOficialPref.v)
    THEN [isNull |-> FALSE, value |-> FirstAt(inputs.tcOficialPref.v, ts).value,
          source |-> "bcra"]
    ELSE IF inputs.mep.some /\ ts \in DatesOf(inputs.mep.v)
    THEN [isNull |-> FALSE, value |-> FirstAt(inputs.mep.v, ts).value,
          source |-> "datos"]
    ELSE [isNull |-> TRUE, value |-> 0, source |-> "none"]

RECURSIVE brechaMepFrom(_, _, _)
brechaMepFrom(inputs, i, acc) ==
    IF i > Len(inputs.mep.v) THEN acc
    ELSE LET mepPoint == inputs.mep.v[i]
             oficialFx == selectOfficialFx(mepPoint.ts, inputs)
         IN brechaMepFrom(inputs, i + 1,
                IF ~oficialFx.isNull /\ oficialFx.value # 0
                THEN Append(acc,
                       MetricPoint(<<"fx.brecha", "mep">>, mepPoint.ts,
                                   NumDiv(Num(mepPoint.value - oficialFx.value),
                                          Num(oficialFx.value)),
                                   [mep |-> mepPoint.value,
                                    oficial |-> oficialFx.value,
                                    oficial_fx_source |-> oficialFx.source]))
                ELSE acc)

computeBrechaMep(inputs) ==
    IF ~inputs.mep.some THEN <<>> ELSE brechaMepFrom(inputs, 1, <<>>)

RECURSIVE respaldoRealFrom(_, _, _, _, _)
respaldoRealFrom(inputs, reservasMap, baseAmpliadaMap, i, acc) ==
    IF i > Len(reservasMap.keys) THEN acc
    ELSE LET date == reservasMap.keys[i]
             reservasValue == reservasMap.val[date]
             hasBaseAmpliada == date \in DOMAIN baseAmpliadaMap.val
             oficialFx == selectOfficialFx(date, inputs)
         IN respaldoRealFrom(inputs, reservasMap, baseAmpliadaMap, i + 1,
                IF /\ hasBaseAmpliada
                   /\ Truthy(baseAmpliadaMap.val[date])
                   /\ ~oficialFx.isNull
                   /\ oficialFx.value # 0
                THEN Append(acc,
                       MetricPoint(<<"mon.respaldo", "real">>, date,
                                   NumDiv(Num(reservasValue),
                                          NumDiv(baseAmpliadaMap.val[date],
                                                 Num(oficialFx.value))),
                                   [reservas |-> reservasValue,
                                    base_ampliada |-> baseAmpliadaMap.val[date],
                                    oficial |-> oficialFx.value,
                                    oficial_fx_source |-> oficialFx.source]))
                ELSE acc)

computeRespaldoReal(inputs) ==
    respaldoRealFrom(inputs, toMap(inputs.reservas),
                     toMap(computeBaseAmpliada(inputs)), 1, <<>>)

---------------------------------------------------------------------------
(* Spec: one run of DualComputeMetricsUseCase.execute over a source snapshot *)

SeriesKeys ==
    {"reservas", "base", "mep", "tcOficialPref", "leliq", "pasesPasivos",
     "pasesActivos"}

LastDate == NumDates

EngineSnapshots ==
    [reservas : {<<>>, FullSeries(ModelDates, 45000)},
     base : {<<>>, FullSeries({1}, 53000), FullSeries(ModelDates, 53000)},
     mep : {<<>>, FullSeries(ModelDates, 1300)},
     tcOficialPref : {<<>>, FullSeries(ModelDates, 1200)},
     leliq : {<<>>, FullSeries({1}, 10), FullSeries(ModelDates, 10)},
     pasesPasivos : {<<>>, FullSeries({LastDate}, 30), FullSeries(ModelDates, 30)},
     pasesActivos : {<<>>, FullSeries(ModelDates, 20)}]

Init ==
    /\ pc = "idle"
    /\ source \in EngineSnapshots
    /\ seriesArray = <<>>
    /\ runInputs = <<>>
    /\ Idle

\* execute() calls computeMetricsForRange, whose loadInputs issues the seven
\* getSeriesPoints reads at once (Promise.all)
StartRun ==
    /\ pc = "idle"
    /\ pc' = "loading"
    /\ pendingReads' = SeriesKeys
    /\ UNCHANGED <<seriesArray, alignedOut, runInputs, mainAligned, results, source,
                   loaded, calcDone, upsertCalls, store, thrown, outcome,
                   history>>

\* one getSeriesPoints call resolves with the rows of its series
ReadCompletes ==
    /\ pc = "loading"
    /\ \E k \in pendingReads :
          /\ pendingReads' = pendingReads \ {k}
          /\ loaded' = [j \in (DOMAIN loaded) \cup {k} |->
                           IF j = k THEN source[k] ELSE loaded[j]]
    /\ UNCHANGED <<pc, seriesArray, alignedOut, runInputs, mainAligned, results,
                   source, calcDone, upsertCalls, store, thrown, outcome,
                   history>>

\* one getSeriesPoints call rejects: Promise.all rejects, the rows read so
\* far are dropped and computeMetricsForRange throws
ReadFails ==
    /\ pc = "loading"
    /\ pendingReads # {}
    /\ pendingReads' = {}
    /\ loaded' = <<>>
    /\ thrown' = "read_error"
    /\ pc' = "engine_threw"
    /\ UNCHANGED <<seriesArray, alignedOut, runInputs, mainAligned, results, source,
                   calcDone, upsertCalls, store, outcome,
                   history>>

OptionalSeries(points) == IF Len(points) > 0 THEN Some(points) ELSE None

\* the record loadInputs returns once every read has resolved
loadInputs(rows) ==
    [reservas |-> rows["reservas"],
     base |-> rows["base"],
     mep |-> OptionalSeries(rows["mep"]),
     tcOficialPref |-> OptionalSeries(rows["tcOficialPref"]),
     leliq |-> OptionalSeries(rows["leliq"]),
     pasesPasivos |-> OptionalSeries(rows["pasesPasivos"]),
     pasesActivos |-> OptionalSeries(rows["pasesActivos"])]

\* continuation of "await this.loadInputs(...)" and the hasRequiredInputs test
InputsLoaded ==
    /\ pc = "loading"
    /\ pendingReads = {}
    /\ runInputs' = loadInputs(loaded)
    /\ pc' = IF hasRequiredInputs(loadInputs(loaded)) THEN "computing"
             ELSE "engine_returned"
    /\ UNCHANGED <<seriesArray, alignedOut, mainAligned, results, source,
                   pendingReads, loaded, calcDone, upsertCalls, store, thrown,
                   outcome,
                   history>>

CALCULATORS ==
    <<"computeReservesToBase", "computeReserves7d", "computeBase30d",
      "computeReserves5d", "computePasivosRem", "computeBaseAmpliada",
      "computeBrechaMep", "computeRespaldoReal">>

\* faulty variant: the output of the calculator is pushed twice
RunCalculator_pushTwice(name, output, newInputs) ==
    /\ pc = "computing"
    /\ Len(calcDone) < Len(CALCULATORS)
    /\ CALCULATORS[Len(calcDone) + 1] = name
    /\ results' = results \o output \o output
    /\ runInputs' = newInputs
    /\ calcDone' = Append(calcDone, name)
    /\ UNCHANGED <<pc, seriesArray, alignedOut, mainAligned, source, pendingReads,
                   loaded, upsertCalls, store, thrown, outcome,
                   history>>

\* results.push(...this.<name>(inputs)), the calculators running in the
\* order of CALCULATORS; newInputs is the inputs record as the call leaves it
RunCalculator(name, output, newInputs) ==
    /\ pc = "computing"
    /\ Len(calcDone) < Len(CALCULATORS)
    /\ CALCULATORS[Len(calcDone) + 1] = name
    /\ results' = results \o output
    /\ runInputs' = newInputs
    /\ calcDone' = Append(calcDone, name)
    /\ UNCHANGED <<pc, seriesArray, alignedOut, mainAligned, source, pendingReads,
                   loaded, upsertCalls, store, thrown, outcome,
                   history>>

RunReservesToBase ==
    RunCalculator("computeReservesToBase", computeReservesToBase(runInputs), runInputs)

\* inputs.reservas.sort(...) sorts the loaded array in place
RunReserves7d ==
    RunCalculator("computeReserves7d", computeReserves7d(runInputs),
                  [runInputs EXCEPT !.reservas = sortByDate(@)])

RunBase30d ==
    RunCalculator("computeBase30d", computeBase30d(runInputs),
                  [runInputs EXCEPT !.base = sortByDate(@)])

RunReserves5d ==
    RunCalculator("computeReserves5d", computeReserves5d(runInputs),
                  [runInputs EXCEPT !.reservas = sortByDate(@)])

RunPasivosRem ==
    RunCalculator("computePasivosRem", computePasivosRem(runInputs), runInputs)

RunBaseAmpliada ==
    RunCalculator("computeBaseAmpliada", computeBaseAmpliada(runInputs), runInputs)

RunBrechaMep ==
    RunCalculator("computeBrechaMep", computeBrechaMep(runInputs), runInputs)

RunRespaldoReal ==
    RunCalculator("computeRespaldoReal", computeRespaldoReal(runInputs), runInputs)

\* if (results.length > 0) await this.targetRepo.upsertMetricsPoints(...)
WriteResults ==
    /\ pc = "computing"
    /\ Len(calcDone) = Len(CALCULATORS)
    /\ \E dbOk \in BOOLEAN :
          /\ upsertMetricsPoints(results, dbOk)
          /\ IF upsertThrows(results, dbOk)
             THEN pc' = "engine_threw" /\ thrown' = "write_error"
             ELSE pc' = "engine_returned" /\ thrown' = thrown
    /\ UNCHANGED <<seriesArray, alignedOut, runInputs, mainAligned, results, source,
                   pendingReads, loaded, calcDone, outcome,
                   history>>

\* execute(): computeMetricsForRange resolved, the completion is logged
ExecuteReturns ==
    /\ pc = "engine_returned"
    /\ outcome' = "ok"
    /\ pc' = "done"
    /\ UNCHANGED <<seriesArray, alignedOut, runInputs, mainAligned, results, source,
                   pendingReads, loaded, calcDone, upsertCalls, store, thrown,
                   history>>

\* a catch block that logs the error and lets execute() resolve
ExecuteCatch_swallow ==
    /\ pc = "engine_threw"
    /\ outcome' = "ok"
    /\ pc' = "done"
    /\ UNCHANGED <<seriesArray, alignedOut, runInputs, mainAligned, results, source,
                   pendingReads, loaded, calcDone, upsertCalls, store, thrown,
                   history>>

\* execute(): the catch block logs the error and rethrows it
ExecuteCatch ==
    /\ pc = "engine_threw"
    /\ outcome' = "error"
    /\ pc' = "failed"
    /\ UNCHANGED <<seriesArray, alignedOut, runInputs, mainAligned, results, source,
                   pendingReads, loaded, calcDone, upsertCalls, store, thrown,
                   history>>

\* the caller (scheduler, CLI, recomputeRecentWindow) invokes execute() again
\* with the same range while the source still holds the same snapshot; what
\* the finished run left behind is kept in history
ExecuteAgain ==
    /\ pc \in {"done", "failed"}
    /\ Len(history) + 1 < MaxRuns
    /\ history' = Append(history,
                         [results |-> results, store |-> store,
                          outcome |-> outcome, upsertCalls |-> upsertCalls])
    /\ pc' = "idle"
    /\ runInputs' = <<>>
    /\ results' = <<>>
    /\ loaded' = <<>>
    /\ calcDone' = <<>>
    /\ upsertCalls' = <<>>
    /\ thrown' = "none"
    /\ outcome' = "none"
    /\ UNCHANGED <<seriesArray, alignedOut, mainAligned, source, pendingReads,
                   store>>

Next ==
    \/ ExecuteAgain
    \/ StartRun
    \/ ReadCompletes
    \/ ReadFails
    \/ InputsLoaded
    \/ RunReservesToBase
    \/ RunReserves7d
    \/ RunBase30d
    \/ RunReserves5d
    \/ RunPasivosRem
    \/ RunBaseAmpliada
    \/ RunBrechaMep
    \/ RunRespaldoReal
    \/ WriteResults
    \/ ExecuteReturns
    \/ ExecuteCatch

Spec == Init /\ [][Next]_vars

---------------------------------------------------------------------------
(* SpecCalculators: the calculators as functions of a MetricInputs record, *)
(* called in the order of computeMetricsForRange on the record held in     *)
(* runInputs; `loaded` keeps the arrays as they were given                 *)

CalculatorRows ==
    [reservas : {FullSeries(ModelDates, 45000),
                 Reversed(FullSeries(ModelDates, 45000))},
     base : {FullSeries({1}, 53000), FullSeries(ModelDates, 53000),
             Reversed(FullSeries(ModelDates, 53000))},
     mep : {<<>>, FullSeries(ModelDates, 1300)},
     tcOficialPref : {FullSeries(ModelDates, 1200)},
     leliq : {<<>>, FullSeries(ModelDates, 10)},
     pasesPasivos : {FullSeries(ModelDates, 30)},
     pasesActivos : {<<>>, FullSeries(ModelDates, 20)}]

InitCalculators ==
    /\ pc = "computing"
    /\ loaded \in CalculatorRows
    /\ runInputs = loadInputs(loaded)
    /\ source = loaded
    /\ seriesArray = <<>>
    /\ alignedOut = <<>>
    /\ mainAligned = <<>>
    /\ results = <<>>
    /\ pendingReads = {}
    /\ calcDone = <<>>
    /\ upsertCalls = <<>>
    /\ store = {}
    /\ thrown = "none"
    /\ outcome = "none"
    /\ history = <<>>

NextCalculators ==
    \/ RunReservesToBase
    \/ RunReserves7d
    \/ RunBase30d
    \/ RunReserves5d
    \/ RunPasivosRem
    \/ RunBaseAmpliada
    \/ RunBrechaMep
    \/ RunRespaldoReal

SpecCalculators == InitCalculators /\ [][NextCalculators]_vars

---------------------------------------------------------------------------
(* BusinessDaysService on Date objects.  A Date is DateAt(day, hours), an   *)
(* instant in UTC; `tz` is the offset in hours of the time zone of the      *)
(* process from UTC (0, or -3 for America/Argentina/Buenos_Aires, which has *)
(* no daylight saving).  getDay and setDate work in the time zone of the    *)
(* process, toISOString in UTC.  With tz = 0 and hours = 0 these operators  *)
(* are the ones on day numbers above.                                       *)

\* the calendar day of the instant in the time zone of the process
localDay(tz, date) ==
    IF date.hours + tz < 0 THEN date.day - 1
    ELSE IF date.hours + tz > 23 THEN date.day + 1
    ELSE date.day

\* date.getDay()
getDayIn(tz, date) == getDay(localDay(tz, date))

\* DateService.formatDate: date.toISOString().split('T')[0]
formatDate(date) == date.day

\* d.setDate(d.getDate() + n): n calendar days later at the same local time
setDateBy(date, n) == DateAt(date.day + n, date.hours)

isBusinessDayIn(tz, date) ==
    IF getDayIn(tz, date) = 0 \/ getDayIn(tz, date) = 6 THEN FALSE
    ELSE formatDate(date) \notin ALL_HOLIDAYS

RECURSIVE stepToBusinessDay(_, _, _)
stepToBusinessDay(tz, day, step) ==
    IF isBusinessDayIn(tz, day) THEN day
    ELSE stepToBusinessDay(tz, setDateBy(day, step), step)

nextBusinessDayIn(tz, date) == stepToBusinessDay(tz, setDateBy(date, 1), 1)

previousBusinessDayIn(tz, date) == stepToBusinessDay(tz, setDateBy(date, -1), -1)

\* faulty variant: steps back `days` calendar days
subtractBusinessDaysIn_calendarDays(tz, date, days) == setDateBy(date, -days)

RECURSIVE subtractBusinessDaysIn(_, _, _)
subtractBusinessDaysIn(tz, date, days) ==
    IF days <= 0 THEN date
    ELSE LET result == previousBusinessDayIn(tz, date)
         IN IF result.day \in Int
            THEN subtractBusinessDaysIn(tz, result, days - 1)
            ELSE result

---------------------------------------------------------------------------
(* SpecBusinessDays: one call of a BusinessDaysService function; runInputs  *)
(* holds the Date object passed, results the Date returned, source the      *)
(* value the Date object had when it was passed                             *)

\* 2024-01-01 .. 2024-01-15, 2024-03-27 .. 2024-04-03 (holidays on Friday
\* 03-29 and Tuesday 04-02) and 2024-05-23 .. 2024-05-27 (holiday on
\* Saturday 05-25)
CallDays == (0..14) \cup (86..93) \cup (143..147)

CallHours == {0, 12, 22}

ProcessTimeZones == {0, -3}

InitBusinessDays ==
    /\ pc = "ready"
    /\ \E day \in CallDays, hours \in CallHours, tz \in ProcessTimeZones :
          runInputs = [date |-> DateAt(day, hours), tz |-> tz]
    /\ seriesArray = <<>>
    /\ source = runInputs.date
    /\ Idle

BusinessDaysCall(name, days, newDate, returned) ==
    /\ pc = "ready"
    /\ pc' = "returned"
    /\ runInputs' = [runInputs EXCEPT !.date = newDate]
    /\ results' = <<[call |-> name, days |-> days, value |-> returned]>>
    /\ UNCHANGED <<seriesArray, alignedOut, mainAligned, source, pendingReads,
                   loaded, calcDone, upsertCalls, store, thrown, outcome, history>>

\* the functions work on "new Date(date)", a copy of the argument
CallPreviousBusinessDay ==
    BusinessDaysCall("previousBusinessDay", 1, runInputs.date,
                     previousBusinessDayIn(runInputs.tz, runInputs.date))

CallNextBusinessDay ==
    BusinessDaysCall("nextBusinessDay", 1, runInputs.date,
                     nextBusinessDayIn(runInputs.tz, runInputs.date))

CallSubtractBusinessDays ==
    \E days \in 0..MaxSubtract :
        BusinessDaysCall("subtractBusinessDays", days, runInputs.date,
                         subtractBusinessDaysIn(runInputs.tz, runInputs.date, days))

NextBusinessDays ==
    \/ CallPreviousBusinessDay
    \/ CallNextBusinessDay
    \/ CallSubtractBusinessDays

SpecBusinessDays == InitBusinessDays /\ [][NextBusinessDays]_vars

---------------------------------------------------------------------------
(* Properties of series alignment *)

\* the value series `points` holds at `date` (dates are unique in a series)
ValueOn(points, date) ==
    points[CHOOSE i \in 1..Len(points) : points[i].ts = date].value

\* the dates present in every series of the list
CommonDatesOf(seriesArr) ==
    {d \in DatesOf(seriesArr[1]) :
        \A k \in 1..Len(seriesArr) : d \in DatesOf(seriesArr[k])}

StrictlyAscending(points) ==
    \A i \in 1..Len(points) - 1 : points[i].ts < points[i + 1].ts

\* C3: for N >= 2 series alignMultipleSeries returns N sequences over exactly
\* the dates present in every input, sorted ascending, all of the same length,
\* position i carrying the same date in every sequence and sequence k carrying
\* series k's own value at that date.
C3_AlignManyIsIntersection ==
    pc = "aligned" =>
        /\ Len(alignedOut) = Len(seriesArray)
        /\ \A k \in 1..Len(alignedOut) :
              /\ DatesOf(alignedOut[k]) = CommonDatesOf(seriesArray)
              /\ Len(alignedOut[k]) = Cardinality(CommonDatesOf(seriesArray))
              /\ StrictlyAscending(alignedOut[k])
              /\ \A i \in 1..Len(alignedOut[k]) :
                    /\ alignedOut[k][i].ts = alignedOut[1][i].ts
                    /\ alignedOut[k][i].value =
                           ValueOn(seriesArray[k], alignedOut[k][i].ts)

\* three series, the third lacking a date the first two share, and a
\* non-empty intersection whose values differ between the series
C3_Witness ==
    /\ pc = "aligned"
    /\ Len(seriesArray) = 3
    /\ CommonDatesOf(seriesArray) # {}
    /\ \E d \in DatesOf(seriesArray[1]) \cap DatesOf(seriesArray[2]) :
          d \notin DatesOf(seriesArray[3])
    /\ alignedOut[1][1].value # alignedOut[2][1].value

---------------------------------------------------------------------------
(* Properties of ReservesBackingUseCase *)

ReservesToBaseId == <<"ratio.reserves", "to", "base">>

PointsOf(res, metricId, ts) ==
    {i \in 1..Len(res) : res[i].metricId = metricId /\ res[i].ts = ts}

MainCommonDates(inputs) ==
    DatesOf(inputs.reserves) \cap DatesOf(inputs.base) \cap DatesOf(inputs.usdOfficial)

\* C1: for every date t present in the reserves, base and official-FX series
\* with fx[t] > 0 exactly one ratio.reserves_to_base point is emitted at t,
\* valued reserves[t] / (base[t] / fx[t]) with the base series' own value;
\* no such point is emitted for a date missing from any of the three series.
C1_ReservesToBaseValue ==
    pc = "done" =>
        /\ \A t \in MainCommonDates(runInputs) :
              ValueOn(runInputs.usdOfficial, t) > 0 =>
                 /\ Cardinality(PointsOf(results, ReservesToBaseId, t)) = 1
                 /\ \A i \in PointsOf(results, ReservesToBaseId, t) :
                       results[i].value =
                           NumDiv(Num(ValueOn(runInputs.reserves, t)),
                                  NumDiv(Num(ValueOn(runInputs.base, t)),
                                         Num(ValueOn(runInputs.usdOfficial, t))))
        /\ \A i \in 1..Len(results) :
              results[i].metricId = ReservesToBaseId =>
                 results[i].ts \in MainCommonDates(runInputs)

\* C2: the set built by alignMainSeries has three arrays of equal length, the
\* three entries at every index carry the same date, and each entry's value
\* is the value of its own source series at that date.
C2_MainAlignedInvariant ==
    pc = "done" =>
        /\ Len(mainAligned.base) = Len(mainAligned.reserves)
        /\ Len(mainAligned.usdOfficial) = Len(mainAligned.reserves)
        /\ \A i \in 1..Len(mainAligned.reserves) :
              /\ mainAligned.base[i].ts = mainAligned.reserves[i].ts
              /\ mainAligned.usdOfficial[i].ts = mainAligned.reserves[i].ts
              /\ mainAligned.reserves[i].value =
                     ValueOn(runInputs.reserves, mainAligned.reserves[i].ts)
              /\ mainAligned.base[i].value =
                     ValueOn(runInputs.base, mainAligned.base[i].ts)
              /\ mainAligned.usdOfficial[i].value =
                     ValueOn(runInputs.usdOfficial, mainAligned.usdOfficial[i].ts)

\* C4: no metric point with a non-finite value (NaN, +Infinity, -Infinity) is
\* ever passed to upsertMetricsPoints, for any finite input values.
C4_OnlyFiniteValuesWritten ==
    \A c \in 1..Len(upsertCalls) :
        \A i \in 1..Len(upsertCalls[c]) : isFinite(upsertCalls[c][i].value)

---------------------------------------------------------------------------
(* Properties of the delta calculators *)

FamilyDone == IF pc = "done_base" THEN "base" ELSE "reserves"

DeltaDone == pc \in {"done_base", "done_reserves"}

WindowsOf(family) == SeqRange(DELTA_WINDOWS(family))

DeltaPoints(family, windowDays, mode, ts) ==
    PointsOf(results, DeltaMetricId(family, windowDays, mode), ts)

\* the series has a point dated exactly windowDays business days before ts,
\* and that point's value is not 0
HasUsableReference(points, ts, windowDays) ==
    LET ref == subtractBusinessDays(ts, windowDays)
    IN ref \in DatesOf(points) /\ ValueOn(points, ref) # 0

\* C5: for each window W of the family and each raw point at t the pair
\* <family>_<W>d.abs / .pct is emitted at t iff the series has a point dated
\* exactly subtractBusinessDays(t, W) whose value is not 0; otherwise nothing
\* is emitted for (W, t); the reference is never a neighbouring point.
C5_DeltaEmittedIffExactReference ==
    DeltaDone =>
        /\ \A W \in WindowsOf(FamilyDone) : \A t \in DatesOf(runInputs.series) :
              IF HasUsableReference(runInputs.series, t, W)
              THEN /\ Cardinality(DeltaPoints(FamilyDone, W, "abs", t)) = 1
                   /\ Cardinality(DeltaPoints(FamilyDone, W, "pct", t)) = 1
                   /\ \A i \in DeltaPoints(FamilyDone, W, "abs", t)
                               \cup DeltaPoints(FamilyDone, W, "pct", t) :
                         results[i].metadata.reference_date =
                             subtractBusinessDays(t, W)
              ELSE /\ DeltaPoints(FamilyDone, W, "abs", t) = {}
                   /\ DeltaPoints(FamilyDone, W, "pct", t) = {}
        /\ \A i \in 1..Len(results) :
              \E W \in WindowsOf(FamilyDone), mode \in {"abs", "pct"} :
                  /\ results[i].metricId = DeltaMetricId(FamilyDone, W, mode)
                  /\ results[i].ts \in DatesOf(runInputs.series)

\* the point of 2024-05-22 gets its 90-day pair while its 7-day reference
\* date has no point although the following calendar day has one
C5_Witness ==
    /\ pc = "done_base"
    /\ DeltaPoints("base", 90, "abs", 142) # {}
    /\ 133 \notin DatesOf(runInputs.series)
    /\ 134 \in DatesOf(runInputs.series)
    /\ DeltaPoints("base", 7, "abs", 142) = {}

\* C6: no emitted percentage-delta point has metadata.reference equal to 0.
C6_PctReferenceNeverZero ==
    \A i \in 1..Len(results) :
        results[i].metadata.mode = "pct" => results[i].metadata.reference # Num(0)

\* a point whose 7-day reference holds the value 0 was skipped while another
\* percentage delta was emitted in the same run
C6_Witness ==
    /\ DeltaDone
    /\ 133 \in DatesOf(runInputs.series)
    /\ 142 \in DatesOf(runInputs.series)
    /\ ValueOn(runInputs.series, 133) = 0
    /\ \E i \in 1..Len(results) : results[i].metadata.mode = "pct"

Scaled(v) == IF v > 1000000 THEN Norm(v, 1000000) ELSE Num(v)

WindowOfPoint(family, p) ==
    CHOOSE W \in WindowsOf(family) :
        \E mode \in {"abs", "pct"} : p.metricId = DeltaMetricId(family, W, mode)

---------------------------------------------------------------------------
(* Properties of the engine run *)

BaseAmpliadaId == <<"mon.base", "ampliada", "ars">>

PasivosRemId == <<"mon.pasivos", "rem", "ars">>

IndicesOf(res, metricId) == {i \in 1..Len(res) : res[i].metricId = metricId}

CalculatorsFinished == Len(calcDone) = Len(CALCULATORS)

StrictDependencies == {"base", "leliq", "pasesActivos", "pasesPasivos"}

\* C8: when base, LELIQ, pases activos or pases pasivos has no points in the
\* run, no mon.base_ampliada_ars point is emitted; when all four have points,
\* mon.base_ampliada_ars points are emitted only for dates present in all four.
C8_StrictAggregatePolicy ==
    CalculatorsFinished =>
        IF \E k \in StrictDependencies : Len(source[k]) = 0
        THEN IndicesOf(results, BaseAmpliadaId) = {}
        ELSE \A i \in IndicesOf(results, BaseAmpliadaId) :
                \A k \in StrictDependencies : results[i].ts \in DatesOf(source[k])

LiabilityComponents ==
    <<[key |-> "leliq", name |-> "leliq"],
      [key |-> "pasesPasivos", name |-> "pases_pasivos"],
      [key |-> "pasesActivos", name |-> "pases_activos"]>>

RECURSIVE PresentSum(_, _)
PresentSum(t, i) ==
    IF i > Len(LiabilityComponents) THEN 0
    ELSE (IF t \in DatesOf(source[LiabilityComponents[i].key])
          THEN ValueOn(source[LiabilityComponents[i].key], t) ELSE 0)
         + PresentSum(t, i + 1)

MissingNames(t) ==
    {LiabilityComponents[i].name : i \in {j \in 1..Len(LiabilityComponents) :
        t \notin DatesOf(source[LiabilityComponents[j].key])}}

LiabilityDates ==
    UNION {DatesOf(source[LiabilityComponents[i].key]) :
              i \in 1..Len(LiabilityComponents)}

\* C9: for every date t on which at least one of LELIQ, pases pasivos, pases
\* activos has a point, computePasivosRem emits exactly one
\* mon.pasivos_rem_ars point at t, valued the sum of the components present
\* at t, its missing_components naming exactly the components absent at t,
\* also when a component series has no points at all in the run.
C9_PartialSumPolicy ==
    (pc = "computing" /\ "computePasivosRem" \in SeqRange(calcDone)) =>
        \A t \in LiabilityDates :
            /\ Cardinality(PointsOf(results, PasivosRemId, t)) = 1
            /\ \A i \in PointsOf(results, PasivosRemId, t) :
                  /\ results[i].value = Num(PresentSum(t, 1))
                  /\ SeqRange(results[i].metadata.missing_components) = MissingNames(t)
                  /\ Len(results[i].metadata.missing_components)
                        = Cardinality(MissingNames(t))

\* the metrics store as the running execute() found it
StoreBeforeRun ==
    IF history = <<>> THEN {} ELSE history[Len(history)].store

CombinedOutputs(inputs) ==
    computeReservesToBase(inputs) \o computeReserves7d(inputs)
    \o computeBase30d(inputs) \o computeReserves5d(inputs)
    \o computePasivosRem(inputs) \o computeBaseAmpliada(inputs)
    \o computeBrechaMep(inputs) \o computeRespaldoReal(inputs)

\* C10: in a run of computeMetricsForRange every read has completed before a
\* calculator runs, every calculator has completed before the store is
\* written, upsertMetricsPoints is invoked at most once and with the combined
\* outputs of all calculators, and after a failed write the run fails with
\* the error: execute never ends successfully and the write is not retried.
C10_RunProtocol ==
    /\ (calcDone # <<>>) =>
          /\ pendingReads = {}
          /\ DOMAIN loaded = SeriesKeys
          /\ \A k \in SeriesKeys : loaded[k] = source[k]
    /\ (upsertCalls # <<>>) =>
          /\ calcDone = CALCULATORS
          /\ Len(upsertCalls) = 1
          /\ upsertCalls[1] = results
          /\ results = CombinedOutputs(loadInputs(source))
    /\ (thrown = "write_error") =>
          /\ pc \in {"engine_threw", "failed"}
          /\ outcome # "ok"
          /\ store = StoreBeforeRun
    /\ (pc = "failed") => outcome = "error"
    /\ (outcome = "ok") => thrown = "none"

C10_Witness ==
    /\ pc = "failed"
    /\ thrown = "write_error"
    /\ outcome = "error"
    /\ Len(upsertCalls) = 1
    /\ calcDone = CALCULATORS
    /\ Len(upsertCalls[1]) > 0

---------------------------------------------------------------------------
(* Properties of repeated runs and of the metrics store *)

TriplesOf(res) ==
    {<<res[i].metricId, res[i].ts, res[i].value>> : i \in 1..Len(res)}

StoredValues(st) == {<<r.metric_id, r.ts, r.value>> : r \in st}

SecondRunSucceeded ==
    /\ history # <<>>
    /\ history[1].outcome = "ok"
    /\ pc = "done"

\* C11: two successful runs of computeMetricsForRange over the same source
\* snapshot and range produce the same set of (metricId, date, value) results,
\* and the store after the second run has exactly the keys and values it had
\* after the first run.
C11_RerunIsIdempotent ==
    SecondRunSucceeded =>
        /\ TriplesOf(results) = TriplesOf(history[1].results)
        /\ StoredValues(store) = StoredValues(history[1].store)
        /\ Cardinality(store) = Cardinality(history[1].store)

C11_Witness ==
    /\ SecondRunSucceeded
    /\ Len(upsertCalls) = 1
    /\ Len(history[1].upsertCalls) = 1
    /\ Cardinality(store) >= 4

\* the calls of the history that resolved and proposed key k
ResolvedCallsWith(k) ==
    {c \in 1..Len(history) : history[c].resolved /\ k \in KeysOf(history[c].batch)}

LastResolvedCallWith(k) ==
    CHOOSE c \in ResolvedCallsWith(k) : \A e \in ResolvedCallsWith(k) : e <= c

WrittenKeys == {k \in UNION {KeysOf(history[c].batch) : c \in 1..Len(history)} :
                   ResolvedCallsWith(k) # {}}

\* C12: after any sequence of upsertMetricsPoints calls the store holds at
\* most one row per (metric_id, ts), exactly the keys some completed call
\* proposed (none is ever removed), each with the value and metadata of the
\* most recent completed call that contained the key; a call with an empty
\* list leaves the store as it was.
C12_UpsertLastWriteWins ==
    /\ \A r1, r2 \in store : RowKey(r1) = RowKey(r2) => r1 = r2
    /\ {RowKey(r) : r \in store} = WrittenKeys
    /\ \A r \in store :
          r = RowOf(LastWithKey(history[LastResolvedCallWith(RowKey(r))].batch,
                                RowKey(r)))
    /\ (history # <<>> /\ history[Len(history)].batch = <<>>) =>
          /\ history[Len(history)].resolved
          /\ Cardinality(WrittenKeys) = Cardinality(store)

C12_Witness ==
    /\ Len(history) = 2
    /\ history[1].resolved /\ history[2].resolved
    /\ Len(history[1].batch) = 2
    /\ Len(history[2].batch) = 1
    /\ KeyOf(history[2].batch[1]) = KeyOf(history[1].batch[1])
    /\ history[2].batch[1].value # history[1].batch[1].value
    /\ Cardinality(store) = 2

---------------------------------------------------------------------------
(* Properties of FxVolatilityUseCase *)

TrendId == <<"fx.trend", "14v30.usd">>

VolId(window) == <<"fx.vol", ToString(window) \o "d.usd">>

SortedPrices == sortByDate(runInputs.usdOfficial)

\* mean of the `window` prices ending at position i of the sorted series
TrailingMean(i, window) ==
    mean([j \in 1..window |-> SortedPrices[i - window + j].value])

\* C13: for the date-sorted price series a fx.trend_14v30.usd point is
\* emitted exactly for each position i >= 30 (counted from 1), dated at that
\* price's date, valued mean of the 14 prices ending at i minus mean of the
\* 30 prices ending at i, with metadata ma_14 and ma_30 those two means.
C13_TrendAveragesEndAtSameDate ==
    pc = "done" =>
        /\ \A i \in 1..Len(SortedPrices) :
              Cardinality(PointsOf(results, TrendId, SortedPrices[i].ts))
                  = IF i >= TREND_MA_LONG THEN 1 ELSE 0
        /\ \A i \in TREND_MA_LONG..Len(SortedPrices) :
              \A r \in PointsOf(results, TrendId, SortedPrices[i].ts) :
                  /\ results[r].metadata.ma_14 = TrailingMean(i, TREND_MA_SHORT)
                  /\ results[r].metadata.ma_30 = TrailingMean(i, TREND_MA_LONG)
                  /\ results[r].value = NumSub(TrailingMean(i, TREND_MA_SHORT),
                                               TrailingMean(i, TREND_MA_LONG))

\* the log returns of the input with the date of their later price
DatedReturns == calculateLogReturns(runInputs.usdOfficial)

ReturnsUpTo(d) == SelectSeq(DatedReturns, LAMBDA lr : lr.ts <= d)

LastValues(rets, window) ==
    [j \in 1..window |-> rets[Len(rets) - window + j].value]

\* C14: every emitted fx.vol_<W>d.usd point dated d is the population
\* standard deviation (divisor W) of exactly the W most recent log returns up
\* to d, and d is the date of the later price of the last of them, also for
\* series in which a price of 0 leaves a pair without log return.
C14_VolatilityWindowMatchesDate ==
    pc = "done" =>
        \A r \in 1..Len(results) :
            \A w \in {VOLATILITY_WINDOWS[1], VOLATILITY_WINDOWS[2]} :
                results[r].metricId = VolId(w) =>
                    LET upTo == ReturnsUpTo(results[r].ts)
                    IN /\ Len(upTo) >= w
                       /\ upTo[Len(upTo)].ts = results[r].ts
                       /\ results[r].value.stdevOf = LastValues(upTo, w)
                       /\ results[r].value.divisor = w

---------------------------------------------------------------------------
(* Properties of FxLocalPressureUseCase *)

LocalPressureId == <<"fx.local", "pressure", "30d.usd">>

UsableBasket == getAvailableBasketCurrencies(runInputs)

\* the aligned series of the run (USD first), when the basket is usable
AlignedPressure == alignAllSeries(runInputs, UsableBasket)

AlignedUsdPrices == PricesOf(AlignedPressure.alignedUsd)

AlignedBasketPrices ==
    [c \in 1..Len(AlignedPressure.alignedBasket) |->
        PricesOf(AlignedPressure.alignedBasket[c])]

\* position (from 1) of date ts in the aligned date list
PositionOf(ts) ==
    CHOOSE i \in 1..Len(AlignedPressure.alignedUsd) :
        AlignedPressure.alignedUsd[i].ts = ts

\* C15: every emitted fx.local_pressure_30d.usd point at position i of the
\* aligned date list has usd_normalization = usd[i] / usd[i-30] - 1,
\* basket_normalization = mean of c[i] / c[i-30] - 1 over the basket members
\* whose reference c[i-30] is not 0, and value their difference: the
\* reference is the entry 30 positions before i.
C15_PressureReferenceIsWindowBack ==
    pc = "done" =>
        \A r \in 1..Len(results) :
            results[r].metricId = LocalPressureId =>
                LET i == PositionOf(results[r].ts)
                IN /\ i - WINDOW_SIZE >= 1
                   /\ LET usdN == calculateUsdNormalization(
                                      AlignedUsdPrices, i - 1, i - 1 - WINDOW_SIZE)
                          basketN == calculateBasketNormalization(
                                      AlignedBasketPrices, i - 1, i - 1 - WINDOW_SIZE)
                      IN /\ ~usdN.isNull /\ ~basketN.isNull
                         /\ results[r].metadata.usd_normalization = usdN.value
                         /\ results[r].metadata.basket_normalization = basketN.value
                         /\ results[r].value = NumSub(usdN.value, basketN.value)

TooLittleForPressure ==
    \/ Len(UsableBasket) < 2
    \/ AlignedPressure.isNull
    \/ Len(AlignedPressure.alignedUsd) < WINDOW_SIZE

\* C16: no point is emitted and nothing is written when fewer than two basket
\* members are usable or the aligned history is shorter than 30; every
\* emitted point's basket_normalization averages at least two basket members;
\* an aligned history of exactly 30 dates yields no point.
C16_PressureNeedsBasketAndHistory ==
    pc = "done" =>
        /\ TooLittleForPressure => (results = <<>> /\ upsertCalls = <<>>)
        /\ ~TooLittleForPressure =>
              /\ \A r \in 1..Len(results) :
                    LET i == PositionOf(results[r].ts)
                    IN Len(basketNormalizations(AlignedBasketPrices, i - 1,
                                                referenceIndexOf(i - 1), 1)) >= 2
              /\ Len(AlignedPressure.alignedUsd) = WINDOW_SIZE => results = <<>>

---------------------------------------------------------------------------
(* DataHealthUseCase *)

lastBusinessDayUpTo(day) ==
    IF isBusinessDay(day) THEN day ELSE previousBusinessDay(day)

\* the 90 consecutive business days that end at business day `lastDay`
BusinessDaysEndingAt(lastDay) ==
    {d \in subtractBusinessDays(lastDay, COVERAGE_THRESHOLD_BUSINESS_DAYS - 1)..lastDay :
        isBusinessDay(d)}

\* the readings of "the trailing 90 business days" of a run: the window ends
\* at the last business day up to the run's day, or at the one before the
\* run's day
TrailingWindows(today) ==
    {BusinessDaysEndingAt(lastDay) :
        lastDay \in {lastBusinessDayUpTo(today.day), previousBusinessDay(today.day)}}

CoveragePointsOf(seriesId) ==
    SelectSeq(results, LAMBDA r : r.metricId = <<"data.coverage." \o seriesId>>)

GapsPointsOf(seriesId) ==
    SelectSeq(results, LAMBDA r : r.metricId = <<"data.gaps." \o seriesId>>)

\* C17: after a run, every non-empty series has exactly one
\* data.coverage.<seriesId> point, whose value is k / 90 and whose metadata
\* has actual_days = k and expected_days = 90, where k is the number of days
\* among the trailing 90 business days on which the series has a point.
C17_CoverageOverTrailingBusinessDays ==
    (pc = "done") =>
        \A i \in 1..Len(runInputs.series) :
            LET s == runInputs.series[i]
                cov == CoveragePointsOf(s.seriesId)
            IN Len(s.points) > 0 =>
                 /\ Len(cov) = 1
                 /\ \E window \in TrailingWindows(runInputs.now) :
                       LET k == Cardinality(window \cap DatesOf(s.points))
                       IN /\ cov[1].value = NumDiv(Num(k), Num(90))
                          /\ cov[1].metadata.actual_days = k
                          /\ cov[1].metadata.expected_days = 90

\* the dates of a series after which at least one calendar day has no point
\* before the next date of the series
GapStarts(dates) ==
    {a \in dates : (a + 1) \notin dates /\ \E b \in dates : b > a}

NextDate(dates, a) == SetMin({b \in dates : b > a})

\* C18: after a run, every series with at least two points has a
\* data.gaps.<seriesId> point whose value and metadata.total_gaps are the
\* number of consecutive date-sorted points more than one calendar day apart,
\* and whose metadata.max_gap_days is the largest (distance - 1) of those
\* pairs, 0 when there is none.
C18_GapsCountAndLongest ==
    (pc = "done") =>
        \A i \in 1..Len(runInputs.series) :
            LET s == runInputs.series[i]
                dates == DatesOf(s.points)
                gaps == GapsPointsOf(s.seriesId)
                lengths == {NextDate(dates, a) - a - 1 : a \in GapStarts(dates)}
            IN Len(s.points) >= 2 =>
                 /\ Len(gaps) = 1
                 /\ gaps[1].value = Num(Cardinality(GapStarts(dates)))
                 /\ gaps[1].metadata.total_gaps = Cardinality(GapStarts(dates))
                 /\ gaps[1].metadata.max_gap_days =
                        (IF lengths = {} THEN 0
                         ELSE CHOOSE m \in lengths : \A l \in lengths : l <= m)

\* a run over the series with points on 2024-01-01 and 2024-01-10 only has
\* reported one gap of 8 days
C18_Witness ==
    /\ pc = "done"
    /\ \E i \in 1..Len(runInputs.series) :
          /\ DatesOf(runInputs.series[i].points) = {0, 9}
          /\ Len(GapsPointsOf(runInputs.series[i].seriesId)) = 1
          /\ GapsPointsOf(runInputs.series[i].seriesId)[1].metadata.total_gaps = 1
          /\ GapsPointsOf(runInputs.series[i].seriesId)[1].metadata.max_gap_days = 8

---------------------------------------------------------------------------
(* Calculators and their inputs *)

---------------------------------------------------------------------------
(* Alignment and the order of the input list *)

PermutedBy(perm) == [k \in 1..Len(seriesArray) |-> seriesArray[perm[k]]]

\* C20: aligning any permutation of the input list gives, for each input
\* series (matched through the permutation), the sequence the original call
\* gave for it: the same dates and the same values.
C20_AlignManyIgnoresListOrder ==
    pc = "aligned" =>
        \A perm \in Permutations(1..Len(seriesArray)) :
            LET out == alignMultipleSeries(PermutedBy(perm))
            IN /\ Len(out) = Len(alignedOut)
               /\ \A k \in 1..Len(out) :
                     /\ out[k] = alignedOut[perm[k]]
                     /\ DatesOf(out[k]) = DatesOf(alignedOut[1])

\* three series with different date sets and a common date have been aligned,
\* and the list in reverse order is a different list
C20_Witness ==
    /\ pc = "aligned"
    /\ Len(seriesArray) = 3
    /\ DatesOf(seriesArray[1]) # DatesOf(seriesArray[3])
    /\ DatesOf(seriesArray[1]) # DatesOf(seriesArray[2])
    /\ alignedOut[1] # <<>>
    /\ alignedOut[1] # alignedOut[3]
    /\ PermutedBy([k \in 1..3 |-> 4 - k]) # seriesArray

---------------------------------------------------------------------------
(* Properties of BusinessDaysService *)

ReturnedBy(names) == pc = "returned" /\ results[1].call \in names

\* the instants one day apart from `from` up to, not including, `to`
InstantsBetween(from, to) == {DateAt(k, from.hours) : k \in from.day..(to.day - 1)}

DateOn(calendar, tz, date) ==
    IF calendar = "utc" THEN formatDate(date) ELSE localDay(tz, date)

LatestBusinessDateBefore(day) ==
    CHOOSE x \in (day - 14)..(day - 1) :
        isBusinessDay(x) /\ \A y \in (x + 1)..(day - 1) : ~isBusinessDay(y)

EarliestBusinessDateAfter(day) ==
    CHOOSE x \in (day + 1)..(day + 14) :
        isBusinessDay(x) /\ \A y \in (day + 1)..(x - 1) : ~isBusinessDay(y)

\* C22: previousBusinessDay(d) returns the latest date before d that is
\* neither a Saturday or Sunday nor a holiday, nextBusinessDay(d) the
\* earliest such date after d (dates read on one calendar, UTC or that of
\* the process), and the Date object passed is not modified.
C22_NearestBusinessDate ==
    ReturnedBy({"previousBusinessDay", "nextBusinessDay"}) =>
        /\ runInputs.date = source
        /\ \E calendar \in {"utc", "local"} :
              DateOn(calendar, runInputs.tz, results[1].value) =
                  (IF results[1].call = "previousBusinessDay"
                   THEN LatestBusinessDateBefore(DateOn(calendar, runInputs.tz, source))
                   ELSE EarliestBusinessDateAfter(DateOn(calendar, runInputs.tz, source)))

---------------------------------------------------------------------------
(* Official FX selection in the engine *)

OfficialFxDependants == {<<"fx.brecha", "mep">>, <<"mon.respaldo", "real">>}

\* the dates on which an official series loaded by the run has a value: the
\* run loads the preferred official series and no fallback official series
OfficialFxDates ==
    IF runInputs.tcOficialPref.some THEN DatesOf(runInputs.tcOficialPref.v) ELSE {}

\* C23: every fx.brecha_mep and mon.respaldo_real point of a run is for a
\* date on which an official series has a value and uses that value as the
\* official rate; on the other dates the two metrics are skipped, and the
\* MEP value is never used as the official rate.
C23_OfficialFxFromOfficialSeries ==
    (pc \in {"computing", "engine_returned", "done", "failed"} /\ runInputs # <<>>) =>
        \A i \in 1..Len(results) :
            results[i].metricId \in OfficialFxDependants =>
                /\ results[i].ts \in OfficialFxDates
                /\ results[i].metadata.oficial =
                       FirstAt(runInputs.tcOficialPref.v, results[i].ts).value
                /\ results[i].metadata.oficial_fx_source = "bcra"

---------------------------------------------------------------------------
(* Alignment of series without a common date *)

\* the series passed to the alignment call that has returned
AlignedInputs ==
    IF pc = "aligned_single" THEN <<seriesArray[1]>>
    ELSE IF pc = "aligned_pair" THEN <<seriesArray[1], seriesArray[2]>>
    ELSE seriesArray

\* C24: when no date is common to all the series passed to alignSeries or
\* alignMultipleSeries (disjoint date sets, or an empty series among the
\* inputs), every returned sequence is empty.
C24_NoCommonDateGivesEmpty ==
    (pc \in {"aligned", "aligned_pair", "aligned_single"}
        /\ CommonDatesOf(AlignedInputs) = {}) =>
            /\ Len(alignedOut) = Len(AlignedInputs)
            /\ \A k \in 1..Len(alignedOut) : alignedOut[k] = <<>>

\* alignSeries has returned for two non-empty series with disjoint date sets
C24_Witness ==
    /\ pc = "aligned_pair"
    /\ seriesArray[1] # <<>> /\ seriesArray[2] # <<>>
    /\ DatesOf(seriesArray[1]) \cap DatesOf(seriesArray[2]) = {}
    /\ alignedOut = <<<<>>, <<>>>>

---------------------------------------------------------------------------
(* Metadata of the delta points *)

WindowLabel(windowDays) == ToString(windowDays) \o "d"

\* C25: every delta point of a run, for window W, has metadata.window equal
\* to the label "<W>d", the same for the .abs and the .pct point of W.
C25_DeltaWindowLabel ==
    \A family \in {"base", "reserves"} :
        (pc = "done_" \o family) =>
            \A i \in 1..Len(results) :
                \E w \in 1..Len(DELTA_WINDOWS(family)), mode \in {"abs", "pct"} :
                    /\ results[i].metricId =
                           DeltaMetricId(family, DELTA_WINDOWS(family)[w], mode)
                    /\ results[i].metadata.window =
                           WindowLabel(DELTA_WINDOWS(family)[w])

---------------------------------------------------------------------------
(* Keys of a written batch *)

\* C26: a batch passed to upsertMetricsPoints in a run never holds two points
\* with the same metric id and the same date.
C26_BatchKeysAreUnique ==
    \A c \in 1..Len(upsertCalls) :
        Cardinality(KeysOf(upsertCalls[c])) = Len(upsertCalls[c])

\* a run has written a batch with several metrics on one date and several
\* dates of one metric
C26_Witness ==
    /\ Len(upsertCalls) = 1
    /\ \E i, j \in 1..Len(upsertCalls[1]) :
          /\ upsertCalls[1][i].ts = upsertCalls[1][j].ts
          /\ upsertCalls[1][i].metricId # upsertCalls[1][j].metricId
    /\ \E i, j \in 1..Len(upsertCalls[1]) :
          /\ upsertCalls[1][i].ts # upsertCalls[1][j].ts
          /\ upsertCalls[1][i].metricId = upsertCalls[1][j].metricId

---------------------------------------------------------------------------
(* Independence of the volatility windows *)

PointsWithId(metricId) == SelectSeq(results, LAMBDA r : r.metricId = metricId)

\* C27: each window W of {7, 30} is computed on its own: after a run over a
\* series with m log returns there are m - W + 1 points of fx.vol_<W>d.usd
\* when m >= W and none otherwise, so 7 <= m < 30 gives m - 6 points of
\* fx.vol_7d.usd and no fx.vol_30d.usd.
C27_VolatilityWindowsIndependent ==
    (pc = "done") =>
        \A w \in 1..Len(VOLATILITY_WINDOWS) :
            LET window == VOLATILITY_WINDOWS[w]
                m == Len(DatedReturns)
            IN Len(PointsWithId(VolId(window))) =
                   (IF m >= window THEN m - window + 1 ELSE 0)

---------------------------------------------------------------------------
(* Range of the coverage ratio *)

\* C28: after a run, every data.coverage point has a value within [0, 1]
\* and metadata.actual_days of at most 90, for every series and every
\* instant of the run.
C28_CoverageWithinUnitInterval ==
    (pc = "done") =>
        \A i \in 1..Len(results) :
            (\E s \in 1..Len(runInputs.series) :
                 results[i].metricId =
                     <<"data.coverage." \o runInputs.series[s].seriesId>>) =>
                /\ ~NumGt(Num(0), results[i].value)
                /\ ~NumGt(results[i].value, Num(1))
                /\ results[i].metadata.actual_days
                       <= COVERAGE_THRESHOLD_BUSINESS_DAYS

---------------------------------------------------------------------------
(* Runs without the required series *)

\* the inputs of the current run have been loaded and lack reservas or base
RequiredInputMissing ==
    /\ pc \in {"computing", "engine_returned", "engine_threw", "done", "failed"}
    /\ runInputs # <<>>
    /\ (Len(runInputs.reservas) = 0 \/ Len(runInputs.base) = 0)

\* C29: when the reserves series or the base series has no points,
\* computeMetricsForRange returns an empty result, runs no calculator and
\* never calls upsertMetricsPoints, whatever the other series hold.
C29_NoRequiredInputsNoOutput ==
    RequiredInputMissing =>
        /\ pc \in {"engine_returned", "done"}
        /\ results = <<>>
        /\ calcDone = <<>>
        /\ upsertCalls = <<>>

\* a run has finished without reserves while base, MEP and the official
\* exchange rate all had data
C29_Witness ==
    /\ pc = "done"
    /\ runInputs # <<>>
    /\ Len(runInputs.reservas) = 0
    /\ Len(runInputs.base) > 0
    /\ runInputs.mep # None
    /\ runInputs.tcOficialPref # None
    /\ results = <<>>

---------------------------------------------------------------------------
(* Sign of the two deltas of a pair *)

\* C30: for every emitted delta pair whose current and reference raw values
\* are both strictly positive, the .abs value and the .pct value have the
\* same sign, also when only one of the two raw values is above 1,000,000.
C30_DeltaPairAgreesInSign ==
    DeltaDone =>
        \A W \in WindowsOf(FamilyDone) : \A t \in DatesOf(runInputs.series) :
            \A i \in DeltaPoints(FamilyDone, W, "abs", t) :
                \A j \in DeltaPoints(FamilyDone, W, "pct", t) :
                    (/\ ValueOn(runInputs.series, t) > 0
                     /\ ValueOn(runInputs.series, subtractBusinessDays(t, W)) > 0)
                        => Sign(results[i].value.n) = Sign(results[j].value.n)
====
